---------------------------- MODULE Spec2Model ----------------------------
(***************************************************************************)
(* State-machine model of the IvantiDataLoader repository: the             *)
(* deda-ingestor service (retry utility, SyncResult, RabbitMQ repository,  *)
(* Ivanti repository, product sync service) and the ivanti-data-loader     *)
(* framework (LoadResult).  Each component is a group of variables with    *)
(* its own actions; a specification runs one component and leaves the      *)
(* others at rest.                                                         *)
(***************************************************************************)
EXTENDS Integers, Sequences, FiniteSets, TLC

VARIABLES
    retry,        \* one call of a function wrapped by retry_with_backoff
    loadResult,   \* a LoadResult (ivanti-data-loader core/base.py)
    syncResult,   \* a SyncResult (deda-ingestor core/models.py)
    resultCalls,  \* bookkeeping: record_* calls made on each result object
    productRepo,  \* the ProductRepository the service was constructed with
    remote,       \* the remote system: what it holds under each product ID
    deliveries,   \* what the broker delivers on the queue, in order
    mq,           \* the RabbitMQ repository: connection, position, errors
    svc,          \* ProductService.process_messages: where the run stands
    log,          \* per delivery tag: what was done with that delivery
    iv,           \* an IvantiRepository: clock, client, token, call in progress
    batch,        \* one call of IvantiRepository.batch_process_products
    app,          \* the command-line application and its JobScheduler
    registry,     \* data loader: the three maps of PluginRegistry
    pipe,         \* data loader: the command line and its Pipeline
    loader,       \* data loader: an IvantiLoader and the API it talks to
    mapper,       \* data loader: one FieldMapper.transform call
    excel         \* data loader: one ExcelReader.read call

vars == <<retry, loadResult, syncResult, resultCalls,
          productRepo, remote, deliveries, mq, svc, log, iv, batch, app,
          registry, pipe, loader, mapper, excel>>

retryVars == <<retry>>
resultVars == <<loadResult, resultCalls>>
syncVars == <<productRepo, remote, deliveries, mq, svc, log>>
restVars == <<batch, app>>
dlVars == <<registry, pipe, loader, mapper, excel>>
ingestorVars == <<retry, resultVars, syncResult, syncVars, iv, restVars>>

(***************************************************************************)
(* Bounds of the model.                                                    *)
(***************************************************************************)
MaxAttemptsBound == 3      \* max_attempts ranges over 1..MaxAttemptsBound
MaxResultCalls == 4        \* record_* calls made on one result object
MaxDeliveries == 2         \* deliveries the broker makes in one behaviour
MaxClock == 600            \* seconds the clock of the Ivanti repository runs
MaxCalls == 3              \* calls made on one Ivanti repository
MaxBatch == 3              \* products handed to batch_process_products
MaxFirings == 2            \* firings of the scheduled job in one behaviour
MaxSignals == 2            \* shutdown signals delivered to the process
MaxRegistryCalls == 3      \* calls made on the plugin registry
MaxRecords == 3            \* records a reader returns to the pipeline
MaxLoads == 2              \* load() calls made on one IvantiLoader
MaxChain == 2              \* segments in one transform string
MaxRows == 3               \* data rows of one sheet
MaxExecutions == 1         \* further execute() calls on one Pipeline
MaxLoaderClock == 3600     \* seconds on the loader's clock

Min(a, b) == IF a <= b THEN a ELSE b

RECURSIVE Pow(_, _)
Pow(b, e) == IF e = 0 THEN 1 ELSE b * Pow(b, e - 1)

(***************************************************************************)
(* utils/retry.py : retry_with_backoff                                     *)
(***************************************************************************)
\* RetryConfig.__init__ default for max_attempts.
DefaultMaxAttempts == 3

\* The configurations the wrapper is run with: the defaults of RetryConfig
\* (base 1.0 s, factor 2.0, cap 60.0 s) and small variations of them.
RetryConfigs ==
    [max_attempts : 1..MaxAttemptsBound,
     base_delay : {1, 2},
     max_delay : {3, 60},
     exponential_base : {1, 2},
     jitter : BOOLEAN,
     has_on_retry : BOOLEAN]

\* delay = min(base_delay * exponential_base ** (attempt - 1), max_delay)
BackoffDelayUncapped(cfg, att) ==
    cfg.base_delay * Pow(cfg.exponential_base, att - 1)
BackoffDelay(cfg, att) ==
    Min(cfg.base_delay * Pow(cfg.exponential_base, att - 1), cfg.max_delay)

\* The values `delay` may take after the optional jitter.  Delays are kept in
\* quarter seconds so that the jitter factor (0.5 + random.random()), sampled
\* at 0.5, 0.75, 1.0 and 1.25, stays integral.
SleepDelays(cfg, att) ==
    IF cfg.jitter
    THEN {BackoffDelay(cfg, att) * k : k \in {2, 3, 4, 5}}
    ELSE {BackoffDelay(cfg, att) * 4}

RetryStart(cfg) ==
    [cfg |-> cfg, pc |-> "running", attempt |-> 1,
     calls |-> << >>, sleeps |-> << >>, on_retry |-> << >>,
     raised |-> "none", returned |-> FALSE]

RetryIdle ==
    [cfg |-> [max_attempts |-> DefaultMaxAttempts, base_delay |-> 1,
              max_delay |-> 60, exponential_base |-> 2, jitter |-> TRUE,
              has_on_retry |-> FALSE],
     pc |-> "idle", attempt |-> 1, calls |-> << >>, sleeps |-> << >>,
     on_retry |-> << >>, raised |-> "none", returned |-> FALSE]

\* What one invocation of the wrapped function does: it returns, or raises an
\* error of a retryable kind, or raises any other error.
Raises == {"retryable", "other"}

\* while attempt <= max_attempts: the loop is entered for another invocation.
RetryLoopGuard(r) == r.pc = "running" /\ r.attempt <= r.cfg.max_attempts

\* if attempt == config.max_attempts: raise
RetryExhaustedEarly(r) == r.attempt >= r.cfg.max_attempts - 1
RetryExhaustedLate(r) == r.attempt = r.cfg.max_attempts + 1
RetryExhausted(r) == r.attempt = r.cfg.max_attempts

\* except retryable_exceptions as e: the clause an error is caught by.
CaughtAsRetryableAny(err) == err \in Raises
CaughtAsRetryable(err) == err = "retryable"

\* try: return func(*args, **kwargs)  -- the invocation succeeds.
WrapperReturns ==
    /\ RetryLoopGuard(retry)
    /\ retry' = [retry EXCEPT !.calls = Append(@, "ok"),
                              !.pc = "returned", !.returned = TRUE]
    /\ UNCHANGED <<resultVars, syncResult, syncVars, iv, restVars, dlVars>>

\* except retryable_exceptions: on the last attempt the error is re-raised.
WrapperRaisesLast ==
    /\ RetryLoopGuard(retry)
    /\ RetryExhausted(retry)
    /\ \E err \in Raises :
         /\ CaughtAsRetryable(err)
         /\ retry' = [retry EXCEPT !.calls = Append(@, err),
                                   !.pc = "raised", !.raised = err]
    /\ UNCHANGED <<resultVars, syncResult, syncVars, iv, restVars, dlVars>>

\* except retryable_exceptions: delay, on_retry (an error of the callback is
\* logged and dropped), time.sleep(delay), attempt += 1.
WrapperRetries ==
    /\ RetryLoopGuard(retry)
    /\ ~RetryExhausted(retry)
    /\ \E err \in Raises, d \in SleepDelays(retry.cfg, retry.attempt) :
         /\ CaughtAsRetryable(err)
         /\ retry' = [retry EXCEPT
                        !.calls = Append(@, err),
                        !.on_retry = IF retry.cfg.has_on_retry
                                     THEN Append(@, retry.attempt) ELSE @,
                        !.sleeps = Append(@, d),
                        !.attempt = @ + 1]
    /\ UNCHANGED <<resultVars, syncResult, syncVars, iv, restVars, dlVars>>

\* except Exception: a non-retryable error is logged and re-raised.
WrapperRaisesOther ==
    /\ RetryLoopGuard(retry)
    /\ \E err \in Raises :
         /\ ~CaughtAsRetryable(err)
         /\ retry' = [retry EXCEPT !.calls = Append(@, err),
                                   !.pc = "raised", !.raised = err]
    /\ UNCHANGED <<resultVars, syncResult, syncVars, iv, restVars, dlVars>>

\* The wrapped function is called again (a fresh run of the wrapper).
WrapperCalled ==
    /\ retry.pc \in {"returned", "raised"}
    /\ \E cfg \in RetryConfigs : retry' = RetryStart(cfg)
    /\ UNCHANGED <<resultVars, syncResult, syncVars, iv, restVars, dlVars>>

(***************************************************************************)
(* core/base.py : LoadResult ; core/models.py : SyncResult                 *)
(***************************************************************************)
Products == {"P1", "P2"}
Tags == 1..MaxDeliveries
\* str(delivery_tag)
TagId(t) == ToString(t)
\* The keys of an error map: product IDs, delivery tags.
Identifiers == Products \cup {TagId(t) : t \in Tags}
Messages == {"m1", "m2"}
NoError == "none"

FreshResult ==
    [total |-> 0, successful |-> 0, failed |-> 0, skipped |-> 0,
     errors |-> [i \in Identifiers |-> NoError], completed |-> FALSE]

\* LoadResult.record_success
LoadRecordSuccessMissingTotal(r) == [r EXCEPT !.successful = @ + 1]
LoadRecordSuccess(r) ==
    [r EXCEPT !.total = @ + 1, !.successful = @ + 1]

\* LoadResult.record_failure
LoadRecordFailureOncePerId(r, id, msg) ==
    IF r.errors[id] # NoError
    THEN [r EXCEPT !.total = @ + 1, !.errors[id] = msg]
    ELSE [r EXCEPT !.total = @ + 1, !.failed = @ + 1, !.errors[id] = msg]
LoadRecordFailure(r, id, msg) ==
    [r EXCEPT !.total = @ + 1, !.failed = @ + 1, !.errors[id] = msg]

\* LoadResult.record_skip
LoadRecordSkip(r) ==
    [r EXCEPT !.total = @ + 1, !.skipped = @ + 1]

\* LoadResult.complete
LoadComplete(r) == [r EXCEPT !.completed = TRUE]

\* LoadResult.success_rate, in percent (integer part).
LoadSuccessRate(r) ==
    IF r.total = 0 THEN 0 ELSE (r.successful * 100) \div r.total

\* SyncResult: the class under src/ declares the fields only; the methods the
\* callers use are taken from the specification's data model.
SyncRecordSuccess(r) ==
    [r EXCEPT !.total = @ + 1, !.successful = @ + 1]

SyncRecordFailure(r, id, msg) ==
    [r EXCEPT !.total = @ + 1, !.failed = @ + 1, !.errors[id] = msg]

SyncRecordSkip(r) ==
    [r EXCEPT !.total = @ + 1, !.skipped = @ + 1]

SyncComplete(r) == [r EXCEPT !.completed = TRUE]

SyncSuccessRate(r) ==
    IF r.total = 0 THEN 0 ELSE (r.successful * 100) \div r.total

\* The calls made so far on each result; `ids` counts the record_failure
\* calls made on the LoadResult per identifier.
ResultCallsIdle == [load |-> 0, sync |-> 0, ids |-> [p \in Products |-> 0]]

CallLoadRecordSuccess ==
    /\ resultCalls.load < MaxResultCalls
    /\ loadResult' = LoadRecordSuccess(loadResult)
    /\ resultCalls' = [resultCalls EXCEPT !.load = @ + 1]
    /\ UNCHANGED <<retry, syncResult, syncVars, iv, restVars, dlVars>>

CallLoadRecordFailure ==
    /\ resultCalls.load < MaxResultCalls
    /\ \E id \in Products, msg \in Messages :
         /\ loadResult' = LoadRecordFailure(loadResult, id, msg)
         /\ resultCalls' = [resultCalls EXCEPT !.load = @ + 1,
                                               !.ids[id] = @ + 1]
    /\ UNCHANGED <<retry, syncResult, syncVars, iv, restVars, dlVars>>

CallLoadRecordSkip ==
    /\ resultCalls.load < MaxResultCalls
    /\ loadResult' = LoadRecordSkip(loadResult)
    /\ resultCalls' = [resultCalls EXCEPT !.load = @ + 1]
    /\ UNCHANGED <<retry, syncResult, syncVars, iv, restVars, dlVars>>

CallLoadComplete ==
    /\ ~loadResult.completed
    /\ loadResult' = LoadComplete(loadResult)
    /\ UNCHANGED <<retry, syncResult, resultCalls, syncVars, iv, restVars, dlVars>>

CallSyncRecordSuccess ==
    /\ resultCalls.sync < MaxResultCalls
    /\ syncResult' = SyncRecordSuccess(syncResult)
    /\ resultCalls' = [resultCalls EXCEPT !.sync = @ + 1]
    /\ UNCHANGED <<retry, loadResult, syncVars, iv, restVars, dlVars>>

CallSyncRecordFailure ==
    /\ resultCalls.sync < MaxResultCalls
    /\ \E id \in Products, msg \in Messages :
         syncResult' = SyncRecordFailure(syncResult, id, msg)
    /\ resultCalls' = [resultCalls EXCEPT !.sync = @ + 1]
    /\ UNCHANGED <<retry, loadResult, syncVars, iv, restVars, dlVars>>

CallSyncRecordSkip ==
    /\ resultCalls.sync < MaxResultCalls
    /\ syncResult' = SyncRecordSkip(syncResult)
    /\ resultCalls' = [resultCalls EXCEPT !.sync = @ + 1]
    /\ UNCHANGED <<retry, loadResult, syncVars, iv, restVars, dlVars>>

(***************************************************************************)
(* repositories/rabbitmq_repository.py : RabbitMQRepository                *)
(***************************************************************************)
\* A message body: bytes that are not UTF-8; text that is not JSON; JSON the
\* adapter rejects; JSON of a product.
Bodies == {"badutf8", "badjson", "invalid", "valid"}

\* body.decode('utf-8') and json.loads(...) in consume_messages: the error
\* raised for a body, "none" if it parses.
DecodeAndParse(body) ==
    IF body = "badutf8" THEN "UnicodeDecodeError"
    ELSE IF body = "badjson" THEN "JSONDecodeError"
    ELSE "none"

\* consume_messages: except json.JSONDecodeError
ParseHandlerCatches(err) == err = "JSONDecodeError"

\* A delivery: its body and, for the JSON of a product, the product ID in it
\* (a body that names no product carries "P1" as a placeholder).
Deliveries ==
    {d \in [body : Bodies, pid : Products] : d.body # "valid" => d.pid = "P1"}

DeliverySeqs == UNION {[1..n -> Deliveries] : n \in 0..MaxDeliveries}

\* What pika does in the body of an operation: it succeeds, the connection or
\* stream is lost (AMQPConnectionError and StreamLostError, handled alike: the
\* model draws StreamLostError), or the channel fails (AMQPChannelError or any
\* other error).
PikaOutcomes == {"ok", "StreamLostError", "AMQPChannelError"}
ConnectionLost == {"AMQPConnectionError", "StreamLostError"}

\* connect(): BlockingConnection succeeds or raises.
ConnectOutcomes == {"ok", "fail"}

\* The outcomes to draw for a step that may not be taken at all.
ConnectChoices(not_taken) == IF not_taken THEN {"ok"} ELSE ConnectOutcomes
BodyChoices(not_taken) == IF not_taken THEN {"ok"} ELSE PikaOutcomes

FreshLog ==
    [pulled |-> FALSE, parse_failed |-> FALSE, yielded |-> FALSE,
     converted |-> FALSE, existed |-> "-", got |-> "-",
     creates |-> 0, updates |-> 0, answer |-> "-", wrote |-> "-",
     ack_calls |-> 0, acked |-> 0, reject_calls |-> 0, rejected |-> 0,
     requeue |-> FALSE, successes |-> 0, failures |-> 0, fail_keys |-> {}]

NoFailure == [op |-> "-", cause |-> "-", raised |-> "none", reconnected |-> FALSE]

\* `failure` is how the body of the last guarded operation failed, if it did.
MqFresh == [connected |-> FALSE, next |-> 1, failure |-> NoFailure]

\* The handlers inside acknowledge_message / reject_message / consume_messages:
\* `except Exception` (and `except AMQPChannelError`) turn every error of the
\* body into a MessageProcessingError.
BodyHandlerRaises(err) == "MessageProcessingError"

\* _ensure_connection: except (AMQPConnectionError, StreamLostError)
EnsureConnectionCatches(err) == err \in ConnectionLost

\* What a guarded operation raises when pika raises `err` in its body, and
\* whether _ensure_connection reconnects: the guard sees what the body's own
\* handlers let through.
GuardedFailure(err) ==
    LET seen == BodyHandlerRaises(err) IN
    IF EnsureConnectionCatches(seen)
    THEN [raised |-> "RetryableConnectionError", reconnected |-> TRUE]
    ELSE [raised |-> seen, reconnected |-> FALSE]

\* One guarded operation (acknowledge_message, reject_message, or the entry of
\* consume_messages) run on repository state m: _ensure_connection connects
\* when is_connected() is false (outcome c), then the body runs (outcome b).
\* Returns the new repository state and the error raised ("none" if none).
GuardedOp(m, op, c, b) ==
    IF ~m.connected /\ c = "fail"
    THEN [mq |-> m, raised |-> "RetryableConnectionError", body_ran |-> FALSE]
    ELSE
      LET m1 == [m EXCEPT !.connected = TRUE, !.failure = NoFailure] IN
      IF b = "ok"
      THEN [mq |-> m1, raised |-> "none", body_ran |-> TRUE]
      ELSE
        LET f == GuardedFailure(b)
            lost == b \in ConnectionLost
            m2 == [m1 EXCEPT
                     !.connected = IF f.reconnected THEN TRUE ELSE ~lost,
                     !.failure = [op |-> op, cause |-> b,
                                  raised |-> f.raised,
                                  reconnected |-> f.reconnected]]
        IN [mq |-> m2, raised |-> f.raised, body_ran |-> TRUE]

\* consume_messages, except json.JSONDecodeError: what the generator does with
\* a body that does not parse, given whether its reject call raised.
AfterParseFailure(reject_raised) ==
    IF reject_raised THEN "raise" ELSE "continue"

\* The requeue argument of the reject calls made by the consumer and by the
\* service (both pass requeue=False).
RejectRequeueTrue == TRUE
RejectRequeue == FALSE

(***************************************************************************)
(* repositories/ivanti_repository.py and repositories/base.py :            *)
(* the product repository as the service sees it                           *)
(***************************************************************************)
\* What the remote system holds under a product ID: nothing, a product with
\* convertible elements, or a product none of whose elements converts.
RemoteStates == {"absent", "present", "present_noelems"}

\* "contract": any ProductRepository honouring the abstract contract of
\* repositories/base.py.  "ivanti": IvantiRepository, as container.py wires it.
RepoKinds == {"contract", "ivanti"}

\* ProductAdapter.from_ivanti_response: absent when no element converts.
FromIvantiResponse(state) ==
    IF state = "present" THEN "product" ELSE "none"

\* get_product: the values it may return ("product", "none") or "raise".
\* IvantiRepository: 404 gives None, a 2xx answer goes through the adapter,
\* anything else raises.  Contract: the product if found, None otherwise.
GetProductOutcomes(kind, state) ==
    IF kind = "ivanti"
    THEN {IF state = "absent" THEN "none" ELSE FromIvantiResponse(state),
          "raise"}
    ELSE {IF state = "absent" THEN "none" ELSE "product", "raise"}

\* ProductAdapter.to_ivanti_product builds IvantiProduct(product_id=...,
\* product_name=...) and IvantiProductElement(product_element=...), while the
\* models require `id` and `name`: validation fails and the adapter raises.
ToIvantiProductRaises == TRUE

\* How the remote system answers a write request, should one reach it: with
\* success, with 404, or with any other error.
RemoteAnswers == {"2xx", "404", "error"}

\* create_product / update_product: "true", "false" (returned) or "raise",
\* for a remote system that answers a request with `answer`.
\* IvantiRepository converts the product before any request is sent; only its
\* update_product turns a 404 into False.
WriteResult(kind, op, answer) ==
    IF kind = "ivanti" /\ ToIvantiProductRaises THEN "raise"
    ELSE IF answer = "2xx" THEN "true"
    ELSE IF answer = "404" /\ (kind = "contract" \/ op = "update") THEN "false"
    ELSE "raise"

\* health_check of either repository.
HealthOutcomes == BOOLEAN

(***************************************************************************)
(* core/product_service.py : ProductService                                *)
(***************************************************************************)
SvcIdle == [pc |-> "idle", tag |-> 0, fatal |-> "none",
            cause |-> "none", abort_tag |-> 0, consumed |-> FALSE,
            hq |-> TRUE, hp |-> TRUE, summary_logged |-> FALSE,
            attempt |-> 1, runs |-> 0]

\* max_attempts of the retry wrapper of process_messages.
ProcessMaxAttempts == 3

\* retry_with_backoff(retryable_exceptions=RetryableError) on
\* process_messages: the errors the wrapper retries (RetryableError and its
\* subclasses).
ProcessMessagesRetries(err) ==
    err \in {"RetryableError", "RetryableConnectionError", "RetryableAPIError"}

\* The wrapper of process_messages, given the state s in which the body
\* ended: a retryable error before the last attempt runs the body again.
WrapperDecision(s) ==
    IF s.pc = "raised" /\ ProcessMessagesRetries(s.fatal)
       /\ s.attempt < ProcessMaxAttempts
    THEN [s EXCEPT !.pc = "idle", !.attempt = @ + 1]
    ELSE s

\* What leaves the for loop of _process_message_batch when the run is cut
\* short: a failed connect() on entering consume_messages raises
\* RetryableConnectionError, everything else has been turned into
\* MessageProcessingError by the repository.
BatchLoopRaises(cause) ==
    IF cause = "connect" THEN "RetryableConnectionError"
    ELSE "MessageProcessingError"

\* _process_message_batch: except Exception -> MessageProcessingError.
BatchWrapsNothing(err) == err
BatchWraps(err) == "MessageProcessingError"

\* _validate_repositories: both health checks must answer true.
RepositoriesHealthyQueueOnly(hq, hp) == hq
RepositoriesHealthy(hq, hp) == hq /\ hp

\* The finally clause of process_messages: sync_result.complete() and
\* _log_sync_results(), applied to the service state s and the result r.
FinallyClauseSkipped(s, r) == [svc |-> s, result |-> r]
FinallyClause(s, r) ==
    [svc |-> [s EXCEPT !.summary_logged = TRUE], result |-> SyncComplete(r)]

\* ProductAdapter.from_rabbitmq_message (not under src/): a Product, or an
\* AdapterError for a message that fails validation.
FromRabbitmqMessage(body) == IF body = "valid" THEN "product" ELSE "AdapterError"

\* _process_product: update if get_product returned a product, else create.
ChooseWrite(got) == IF got = "product" THEN "update" ELSE "create"

\* _create_product / _update_product: the value handed back to
\* _process_single_message for a repository answer w.
WriteSucceededAlways(w) == TRUE
WriteSucceeded(w) == w = "true"

\* _process_single_message for a yielded message: the steps it takes and how
\* it ends.  `ends` is "true" / "false" (the value returned) or "raise".
ProcessSingleMessage(body, g, w) ==
    IF FromRabbitmqMessage(body) # "product"
    THEN [converted |-> FALSE, got |-> "-", op |-> "-", wrote |-> "-",
          ends |-> "raise"]
    ELSE IF g = "raise"
    THEN [converted |-> TRUE, got |-> g, op |-> "-", wrote |-> "-",
          ends |-> "raise"]
    ELSE [converted |-> TRUE, got |-> g, op |-> ChooseWrite(g), wrote |-> w,
          ends |-> IF WriteSucceeded(w) THEN "true" ELSE "false"]

\* _process_message_batch: how a delivery is settled for each way
\* _process_single_message ends.
SettleAckOnly(ends) == IF ends = "true" THEN "ack" ELSE "none"
Settle(ends) == IF ends = "true" THEN "ack" ELSE "reject"

\* _acknowledge_message: what it lets through when acknowledge_message raises
\* (`except Exception` logs the error and returns).
AcknowledgeMessagePropagates(raised) == raised
AcknowledgeMessage(raised) == "none"

\* The identifier a failure is recorded under: the product ID by
\* _create_product / _update_product, str(delivery_tag) by the batch loop.
FailureKey(ends, pid, t) == IF ends = "raise" THEN TagId(t) ELSE pid

\* The SyncResult after one message.
RecordOutcomeNothing(r, ends, pid, t) == r
RecordOutcome(r, ends, pid, t) ==
    IF ends = "true" THEN SyncRecordSuccess(r)
    ELSE SyncRecordFailure(r, FailureKey(ends, pid, t),
                           IF ends = "raise" THEN "m1" ELSE "m2")

\* process_messages (one call per behaviour): reset the result, check both
\* repositories.
ProcessMessagesStart ==
    /\ svc.pc = "idle"
    /\ \E hq \in HealthOutcomes, hp \in HealthOutcomes :
         LET healthy == RepositoriesHealthy(hq, hp)
             s == WrapperDecision(
                    [svc EXCEPT
                      !.pc = IF healthy THEN "loop" ELSE "raised",
                      !.fatal = IF healthy THEN "none" ELSE "ConnectionError",
                      !.cause = IF healthy THEN "none" ELSE "health",
                      !.abort_tag = 0, !.tag = 0, !.consumed = FALSE,
                      !.hq = hq, !.hp = hp, !.runs = @ + 1])
         IN
         /\ syncResult' = IF healthy THEN FreshResult
                          ELSE FinallyClause(s, FreshResult).result
         /\ mq' = IF hq THEN [mq EXCEPT !.connected = TRUE] ELSE mq
         /\ svc' = IF healthy THEN s ELSE FinallyClause(s, FreshResult).svc
    /\ UNCHANGED <<retry, resultVars, productRepo, remote, deliveries, log, iv, restVars, dlVars>>

\* The run ends with a fatal error: the MessageProcessingError of
\* _process_message_batch propagates through the finally clause.
Abort(s, cause, t) ==
    WrapperDecision(
      [s EXCEPT !.pc = "raised", !.fatal = BatchWraps(BatchLoopRaises(cause)),
                !.cause = cause, !.abort_tag = t])

\* The generator of consume_messages runs to its next yield: it is entered
\* through _ensure_connection on its first step (the connection opened by
\* the health check may have been closed since), then takes the next frame
\* from channel.consume; a body that does not parse is rejected and skipped.
ConsumerPull ==
    /\ svc.pc = "loop"
    /\ \E closed \in (IF svc.consumed \/ ~mq.connected THEN {FALSE}
                      ELSE BOOLEAN) :
       \E c \in ConnectChoices((mq.connected /\ ~closed) \/ svc.consumed),
          ev \in PikaOutcomes \cup {"end"} :
       \E rc \in ConnectChoices(ev # "ok"), rb \in BodyChoices(ev # "ok") :
         LET entry == IF svc.consumed
                      THEN [mq |-> mq, raised |-> "none", body_ran |-> TRUE]
                      ELSE GuardedOp([mq EXCEPT !.connected = @ /\ ~closed],
                                     "consume", c, "ok")
             t == mq.next
         IN
         IF entry.raised # "none"
         THEN \* connect() failed on entry
              /\ mq' = entry.mq
              /\ svc' = FinallyClause(Abort(svc, "connect", 0), syncResult).svc
              /\ syncResult' = FinallyClause(svc, syncResult).result
              /\ UNCHANGED log
         ELSE IF ev = "end"
         THEN \* the stream of frames ends: the loop and the run complete
              /\ t > Len(deliveries)
              /\ mq' = entry.mq
              /\ svc' = FinallyClause([svc EXCEPT !.pc = "returned",
                                                  !.consumed = TRUE],
                                      syncResult).svc
              /\ syncResult' = FinallyClause(svc, syncResult).result
              /\ UNCHANGED log
         ELSE IF ev # "ok"
         THEN \* channel.consume raises
              /\ mq' = GuardedOp(entry.mq, "consume", "ok", ev).mq
              /\ svc' = FinallyClause(Abort([svc EXCEPT !.consumed = TRUE],
                                            ev, 0), syncResult).svc
              /\ syncResult' = FinallyClause(svc, syncResult).result
              /\ UNCHANGED log
         ELSE \* a frame arrives
              /\ t <= Len(deliveries)
              /\ IF DecodeAndParse(deliveries[t].body) # "none"
                    /\ ~ParseHandlerCatches(DecodeAndParse(deliveries[t].body))
                 THEN \* the error leaves the loop through `except Exception`
                      LET err == DecodeAndParse(deliveries[t].body) IN
                      /\ mq' = [GuardedOp(entry.mq, "consume", "ok", err).mq
                                  EXCEPT !.next = t + 1]
                      /\ log' = [log EXCEPT ![t].pulled = TRUE]
                      /\ svc' = FinallyClause(
                                    Abort([svc EXCEPT !.consumed = TRUE],
                                          err, t), syncResult).svc
                      /\ syncResult' = FinallyClause(svc, syncResult).result
                 ELSE IF DecodeAndParse(deliveries[t].body) # "none"
                 THEN LET rj == GuardedOp(entry.mq, "reject", rc, rb)
                          then == AfterParseFailure(rj.raised # "none")
                      IN
                      /\ mq' = [rj.mq EXCEPT !.next = t + 1]
                      /\ log' = [log EXCEPT
                                   ![t].pulled = TRUE,
                                   ![t].parse_failed = TRUE,
                                   ![t].reject_calls = @ + 1,
                                   ![t].requeue = @ \/ RejectRequeue,
                                   ![t].rejected =
                                       IF rj.raised = "none" THEN @ + 1 ELSE @]
                      /\ svc' = IF then = "continue"
                                THEN [svc EXCEPT !.consumed = TRUE]
                                ELSE FinallyClause(
                                       Abort([svc EXCEPT !.consumed = TRUE],
                                             "reject_failed", t),
                                       syncResult).svc
                      /\ syncResult' = IF then = "continue"
                                       THEN syncResult
                                       ELSE FinallyClause(svc, syncResult).result
                 ELSE /\ mq' = [entry.mq EXCEPT !.next = t + 1]
                      /\ log' = [log EXCEPT ![t].pulled = TRUE,
                                            ![t].yielded = TRUE]
                      /\ svc' = [svc EXCEPT !.consumed = TRUE,
                                            !.pc = "handling", !.tag = t]
                      /\ UNCHANGED syncResult
    /\ UNCHANGED <<retry, resultVars, productRepo, remote, deliveries, iv, restVars, dlVars>>

\* One iteration of the loop of _process_message_batch: the yielded message is
\* converted, looked up, created or updated, its outcome recorded, and the
\* delivery acknowledged or rejected (errors of either call are swallowed).
HandleMessage ==
    /\ svc.pc = "handling"
    /\ LET t == svc.tag
           d == deliveries[t]
       IN
       \E g \in GetProductOutcomes(productRepo, remote[d.pid]) :
       \E a \in RemoteAnswers,
          sc \in ConnectChoices(mq.connected), sb \in PikaOutcomes :
         LET w == WriteResult(productRepo, ChooseWrite(g), a)
             p == ProcessSingleMessage(d.body, g, w)
             how == Settle(p.ends)
             st == GuardedOp(mq, how, sc, sb)
             done == st.raised = "none"
             \* an error of the acknowledge helper would reach the loop's
             \* `except Exception`: reject, then record under the tag
             escaped == how = "ack" /\ AcknowledgeMessage(st.raised) # "none"
             recorded == RecordOutcome(syncResult, p.ends, d.pid, t)
         IN
         /\ mq' = IF escaped THEN GuardedOp(st.mq, "reject", sc, sb).mq
                  ELSE st.mq
         /\ syncResult' = IF escaped
                          THEN SyncRecordFailure(recorded, TagId(t), "m1")
                          ELSE recorded
         /\ remote' = IF p.op = "create" /\ p.wrote = "true"
                      THEN [remote EXCEPT ![d.pid] = "present"]
                      ELSE remote
         /\ log' = [log EXCEPT
                      ![t].converted = p.converted,
                      ![t].existed = IF p.converted THEN remote[d.pid] ELSE "-",
                      ![t].got = p.got,
                      ![t].answer = IF p.op = "-" THEN "-" ELSE a,
                      ![t].wrote = p.wrote,
                      ![t].creates = IF p.op = "create" THEN @ + 1 ELSE @,
                      ![t].updates = IF p.op = "update" THEN @ + 1 ELSE @,
                      ![t].ack_calls = IF how = "ack" THEN @ + 1 ELSE @,
                      ![t].acked = IF how = "ack" /\ done THEN @ + 1 ELSE @,
                      ![t].reject_calls =
                          IF how = "reject" \/ escaped THEN @ + 1 ELSE @,
                      ![t].rejected =
                          IF how = "reject" /\ done THEN @ + 1 ELSE @,
                      ![t].requeue =
                          IF how = "reject" \/ escaped
                          THEN @ \/ RejectRequeue ELSE @,
                      ![t].successes =
                          @ + (syncResult'.successful - syncResult.successful),
                      ![t].failures =
                          @ + (syncResult'.failed - syncResult.failed),
                      ![t].fail_keys =
                          IF syncResult'.failed > syncResult.failed
                          THEN @ \cup {FailureKey(p.ends, d.pid, t)} ELSE @]
         /\ svc' = [svc EXCEPT !.pc = "loop", !.tag = 0]
    /\ UNCHANGED <<retry, resultVars, productRepo, deliveries, iv, restVars, dlVars>>

(***************************************************************************)
(* repositories/ivanti_repository.py : IvantiRepository, token handling    *)
(***************************************************************************)
\* _authenticate: the buffer subtracted from expires_in, in seconds.
TokenBuffer == 300

\* max_attempts of the retry wrappers of _authenticate and of the CRUD methods.
AuthMaxAttempts == 3
CrudMaxAttempts == 3

\* Seconds the clock may advance in one step; expires_in values the token
\* endpoint may answer with (one of them below the buffer).
ClockSteps == {100, 200}
ExpiresIn == {200, 400, 600}

CrudOps == {"get", "create", "update", "delete"}

\* The token endpoint: it issues a token, the transport fails, or it answers
\* with an error status.
TokenOutcomes == {"ok", "transport", "denied"}

\* How the API answers a request, should one reach it: a status code, or the
\* transport fails (httpx.TransportError).
Responses == {"200", "400", "404", "429", "503", "TransportError"}

\* _handle_response: retryable_codes
RetryableCodes == {"408", "429", "500", "502", "503", "504"}

\* RetryableAPIError(message, status_code=..., response_body=...): the class
\* defines no __init__, so RetryableError.__init__ (first in the MRO) runs and
\* rejects both keywords: the expression raises TypeError.
NewRetryableAPIError == "TypeError"

\* _handle_response: what it raises for a status code ("none" for 2xx).
HandleResponse(status) ==
    IF status = "200" THEN "none"
    ELSE IF status \in RetryableCodes THEN NewRetryableAPIError
    ELSE "IvantiAPIError"

\* The handlers of a CRUD method: the two retryable errors pass unchanged,
\* everything else becomes IvantiAPIError.
CrudHandler(err) ==
    IF err \in {"RetryableConnectionError", "RetryableAPIError"} THEN err
    ELSE "IvantiAPIError"

\* retry_with_backoff(retryable_exceptions=(RetryableConnectionError,
\* RetryableAPIError)) on the CRUD methods.
CrudWrapperRetries(err) ==
    err \in {"RetryableConnectionError", "RetryableAPIError"}

\* The body of a CRUD method once its request is answered: the value returned
\* and the error raised.  `held` is what a 2xx answer to a GET carries.
CrudBody(op, response, held) ==
    IF response = "TransportError"
    THEN [result |-> "-", raised |-> CrudHandler("TransportError")]
    ELSE IF response = "404" /\ op \in {"get", "update", "delete"}
    THEN [result |-> IF op = "get" THEN "none" ELSE "false",
          raised |-> "none"]
    ELSE IF HandleResponse(response) # "none"
    THEN [result |-> "-", raised |-> CrudHandler(HandleResponse(response))]
    ELSE [result |-> IF op = "get" THEN FromIvantiResponse(held) ELSE "true",
          raised |-> "none"]

\* The call in progress (or the last one): whether a usable token was cached
\* when it started, the token requests and successful exchanges it made, the
\* API requests it sent, how the API answers requests of this call (`remote`),
\* the answer to the last request sent, and how the call ended.
NoCall == [usable_at_start |-> FALSE, posts |-> 0, exchanges |-> 0,
           requests |-> 0, raised |-> "none",
           remote |-> "-", last |-> "-", result |-> "-"]

\* __init__: a client, no token, _token_expiry = 0.
IvFresh ==
    [now |-> 0, client |-> TRUE, token |-> FALSE, token_expiry |-> 0,
     pc |-> "idle", op |-> "-", crud_attempt |-> 0, auth_attempt |-> 0,
     calls |-> 0, call |-> NoCall, exchanges |-> 0, requests |-> 0,
     stale_post |-> FALSE]

\* is_connected, the token part: a token is cached and time.time() is below
\* _token_expiry.
TokenUsable(v) == v.token /\ v.now < v.token_expiry

\* is_connected
IsConnectedIgnoringExpiry(v) == v.client /\ v.token
IsConnected(v) == v.client /\ TokenUsable(v)

\* One run of the body of _authenticate: the new repository state and the
\* error raised.  Without a client the request itself fails (AttributeError,
\* turned into AuthenticationError); any error status also ends as
\* AuthenticationError.
AuthenticateOnce(v, outcome, expires_in) ==
    IF IsConnected(v) THEN [iv |-> v, raised |-> "none"]
    ELSE IF ~v.client THEN [iv |-> v, raised |-> "AuthenticationError"]
    ELSE
      LET posted == [v EXCEPT !.call.posts = @ + 1,
                              !.stale_post = @ \/ TokenUsable(v)]
      IN
      IF outcome = "ok"
      THEN [iv |-> [posted EXCEPT
                      !.token = TRUE,
                      !.token_expiry = v.now + expires_in - TokenBuffer,
                      !.call.exchanges = @ + 1,
                      !.exchanges = @ + 1],
            raised |-> "none"]
      ELSE IF outcome = "transport"
      THEN [iv |-> posted, raised |-> "RetryableConnectionError"]
      ELSE [iv |-> posted, raised |-> "AuthenticationError"]

\* The call in progress ends, returning or raising.
EndCall(v, raised) ==
    [v EXCEPT !.pc = "idle", !.call.raised = raised,
              !.crud_attempt = 0, !.auth_attempt = 0]

\* An invocation of a CRUD method (or of health_check) by its caller or by
\* its retry wrapper: `if not self.is_connected(): self.connect()`.
Invoke(v) ==
    IF IsConnected(v)
    THEN IF v.op = "health_check" THEN EndCall(v, "none")
         ELSE [v EXCEPT !.pc = "request"]
    ELSE [v EXCEPT !.pc = "connect", !.auth_attempt = 1]

\* time.time() advances.
Tick ==
    /\ \E d \in ClockSteps :
         /\ iv.now + d <= MaxClock
         /\ iv' = [iv EXCEPT !.now = @ + d]
    /\ UNCHANGED <<retry, resultVars, syncResult, syncVars, restVars, dlVars>>

\* get_product / create_product / update_product / delete_product /
\* health_check is called.
CallStart ==
    /\ iv.pc = "idle"
    /\ iv.calls < MaxCalls
    /\ \E op \in CrudOps \cup {"health_check"} :
         iv' = Invoke([iv EXCEPT
                         !.op = op, !.calls = @ + 1, !.crud_attempt = 1,
                         !.call = [NoCall EXCEPT
                                     !.usable_at_start = TokenUsable(iv)]])
    /\ UNCHANGED <<retry, resultVars, syncResult, syncVars, restVars, dlVars>>

\* connect() and reconnect(), called directly (__enter__ is connect(),
\* __exit__ is disconnect()).
ConnectOps == {"connect", "reconnect"}

\* What the token endpoint would do for a connect call: "ok" when it grants a
\* token that outlives the buffer.
TokenEndpoint(o, e) ==
    IF o = "ok" /\ e <= TokenBuffer THEN "ok_short" ELSE o

\* The body of disconnect().
DisconnectBody(v) ==
    IF v.client
    THEN [v EXCEPT !.client = FALSE, !.token = FALSE, !.token_expiry = 0]
    ELSE v

\* connect() or reconnect() is called: reconnect() disconnects first, then
\* both run _authenticate under its retry wrapper.
ConnectStart ==
    /\ iv.pc = "idle"
    /\ iv.calls < MaxCalls
    /\ \E op \in ConnectOps :
         LET v == IF op = "reconnect" THEN DisconnectBody(iv) ELSE iv IN
         iv' = [v EXCEPT
                  !.op = op, !.calls = @ + 1, !.crud_attempt = 0,
                  !.auth_attempt = 1, !.pc = "connect",
                  !.call = [NoCall EXCEPT !.usable_at_start = TokenUsable(iv)]]
    /\ UNCHANGED <<retry, resultVars, syncResult, syncVars, restVars, dlVars>>

\* One attempt of _authenticate under its retry wrapper; a retryable error
\* that outlives the wrapper reaches the wrapper of the CRUD method, which
\* invokes the method again, while health_check swallows every error and
\* connect() / reconnect() let it through.
AuthAttempt ==
    /\ iv.pc = "connect"
    /\ \E o \in TokenOutcomes, e \in ExpiresIn :
         LET r0 == AuthenticateOnce(iv, o, e)
             r == IF iv.op \in ConnectOps
                  THEN [r0 EXCEPT !.iv.call.remote = TokenEndpoint(o, e)]
                  ELSE r0
         IN
         iv' = IF r.raised = "none"
               THEN IF iv.op \in {"health_check"} \cup ConnectOps
                    THEN EndCall(r.iv, "none")
                    ELSE [r.iv EXCEPT !.pc = "request"]
               ELSE IF iv.op = "health_check"
                       /\ (r.raised # "RetryableConnectionError"
                           \/ iv.auth_attempt = AuthMaxAttempts)
               THEN EndCall(r.iv, "none")
               ELSE IF r.raised # "RetryableConnectionError"
               THEN EndCall(r.iv, r.raised)
               ELSE IF iv.auth_attempt < AuthMaxAttempts
               THEN [r.iv EXCEPT !.auth_attempt = @ + 1]
               ELSE IF iv.op \notin ConnectOps
                       /\ iv.crud_attempt < CrudMaxAttempts
               THEN Invoke([r.iv EXCEPT !.crud_attempt = @ + 1])
               ELSE EndCall(r.iv, r.raised)
    /\ UNCHANGED <<retry, resultVars, syncResult, syncVars, restVars, dlVars>>

\* The body of the CRUD method after the connection check: create and update
\* convert the product first; then the request is sent and answered.  A
\* retryable error makes the wrapper invoke the method again.
SendRequest ==
    /\ iv.pc = "request"
    /\ \E a \in Responses, held \in {"present", "present_noelems"} :
         LET sends == ~(iv.op \in {"create", "update"} /\ ToIvantiProductRaises)
             out == IF sends THEN CrudBody(iv.op, a, held)
                    ELSE [result |-> "-", raised |-> CrudHandler("AdapterError")]
             v == [iv EXCEPT
                     !.call.remote = a,
                     !.call.last = IF sends THEN a ELSE "-",
                     !.call.requests = IF sends THEN @ + 1 ELSE @,
                     !.requests = IF sends THEN @ + 1 ELSE @,
                     !.call.result = out.result]
         IN
         iv' = IF CrudWrapperRetries(out.raised)
                  /\ iv.crud_attempt < CrudMaxAttempts
               THEN Invoke([v EXCEPT !.crud_attempt = @ + 1])
               ELSE EndCall(v, out.raised)
    /\ UNCHANGED <<retry, resultVars, syncResult, syncVars, restVars, dlVars>>

\* disconnect
Disconnect ==
    /\ iv.pc = "idle"
    /\ iv.client
    /\ iv' = DisconnectBody(iv)
    /\ UNCHANGED <<retry, resultVars, syncResult, syncVars, restVars, dlVars>>

(***************************************************************************)
(* repositories/ivanti_repository.py : batch_process_products               *)
(***************************************************************************)
\* The operation argument: the two supported values and an unsupported one.
BatchOperations == {"create", "update", "delete"}

\* What create_product / update_product does for one item of the batch: it
\* returns "true" or "false", or raises (connecting may fail before the body
\* runs; the body's outcome is that of WriteResult).  An unsupported operation
\* raises ValueError.
BatchItemOutcomes(op) ==
    IF op \notin {"create", "update"} THEN {"ValueError"}
    ELSE {"AuthenticationError", "RetryableConnectionError"}
         \cup {LET w == WriteResult("ivanti", op, a)
               IN IF w = "raise" THEN "IvantiAPIError" ELSE w
               : a \in RemoteAnswers}

\* batch_process_products: `except Exception` around each item.
BatchCatchesOnlyAPIErrors(err) == err = "IvantiAPIError"
BatchCatches(err) == TRUE

BatchIdle ==
    [op |-> "create", products |-> << >>, i |-> 1, outcomes |-> << >>,
     result |-> FreshResult, pc |-> "idle", raised |-> "none"]

BatchStart(products, op) ==
    [BatchIdle EXCEPT !.op = op, !.products = products, !.pc = "loop"]

\* One iteration of the loop over the products.
BatchItem ==
    /\ batch.pc = "loop"
    /\ batch.i <= Len(batch.products)
    /\ \E o \in BatchItemOutcomes(batch.op) :
         LET pid == batch.products[batch.i]
             b == [batch EXCEPT !.i = @ + 1, !.outcomes = Append(@, o)]
         IN
         batch' =
           IF o = "true"
           THEN [b EXCEPT !.result = SyncRecordSuccess(@)]
           ELSE IF o = "false"
           THEN [b EXCEPT !.result = SyncRecordFailure(@, pid, "m1")]
           ELSE IF BatchCatches(o)
           THEN [b EXCEPT !.result = SyncRecordFailure(@, pid, "m2")]
           ELSE [b EXCEPT !.pc = "raised", !.raised = o]
    /\ UNCHANGED <<retry, resultVars, syncResult, syncVars, iv, app, dlVars>>

\* After the last product: complete() and return.
BatchReturn ==
    /\ batch.pc = "loop"
    /\ batch.i > Len(batch.products)
    /\ batch' = [batch EXCEPT !.pc = "returned",
                              !.result = SyncComplete(@)]
    /\ UNCHANGED <<retry, resultVars, syncResult, syncVars, iv, app, dlVars>>

(***************************************************************************)
(* scheduler/job_scheduler.py and __main__.py                               *)
(***************************************************************************)
\* How one call of ProductService.process_messages ends for its caller.
ServiceOutcomes == {"returned", "ConnectionError", "MessageProcessingError"}

\* JobScheduler._sync_products: `except Exception` around process_messages.
\* The value is the exception that leaves the job, "none" when it returns.
SyncProductsPropagates(outcome) ==
    IF outcome = "returned" THEN "none" ELSE outcome
SyncProducts(outcome) == "none"

\* BlockingScheduler.shutdown() as JobScheduler.stop() calls it.  A running
\* scheduler stops; on one that is not running the library either raises
\* SchedulerNotRunningError or returns, depending on its version.
ShutdownOutcomes(sched) ==
    IF sched = "running" THEN {"stopped"} ELSE {"raises", "returns"}

\* Application.run: both except clauses return 1.
ExitCodeOnError == 1

\* Application() has run: Application's handlers are installed, running is
\* True, and run() has not yet created the scheduler.
AppFresh(mode) ==
    [mode |-> mode, pc |-> "init", handler |-> "Application",
     running |-> TRUE, sched |-> "new", firings |-> << >>,
     escaped |-> << >>, signals |-> 0, exit_code |-> -1,
     due |-> 0, in_flight |-> 0, skipped |-> 0]

AppIdle == [AppFresh("run_now") EXCEPT !.pc = "idle"]

AppExit(a, code) == [a EXCEPT !.pc = "exited", !.exit_code = code]

\* create_scheduler(): JobScheduler.__init__ installs its own handlers for
\* SIGINT and SIGTERM, replacing Application's.
CreateScheduler ==
    /\ app.pc = "init"
    /\ app' = [app EXCEPT !.pc = "created", !.handler = "JobScheduler"]
    /\ UNCHANGED <<retry, resultVars, syncResult, syncVars, iv, batch, dlVars>>

\* --run-now: scheduler.run_now(), then return 0.
RunNow ==
    /\ app.pc = "created"
    /\ app.mode = "run_now"
    /\ \E o \in ServiceOutcomes :
         LET esc == SyncProducts(o)
             a == [app EXCEPT !.firings = Append(@, o),
                              !.escaped = Append(@, esc)]
         IN app' = AppExit(a, IF esc = "none" THEN 0 ELSE ExitCodeOnError)
    /\ UNCHANGED <<retry, resultVars, syncResult, syncVars, iv, batch, dlVars>>

\* scheduler.start(): parse the schedule time, add the job, and block in
\* BlockingScheduler.start() until the scheduler is shut down.
SchedulerStart ==
    /\ app.pc = "created"
    /\ app.mode = "scheduled"
    /\ \E valid \in BOOLEAN :
         app' = IF valid
                THEN [app EXCEPT !.pc = "started", !.sched = "running"]
                ELSE AppExit(app, ExitCodeOnError)
    /\ UNCHANGED <<retry, resultVars, syncResult, syncVars, iv, batch, dlVars>>

\* add_job(..., max_instances=1)
MaxInstancesTwo == 1 + 1
MaxInstances == 1

\* The cron trigger comes due while the scheduler runs: the job is handed to
\* the executor, unless max_instances executions of it are in progress, in
\* which case this firing is skipped.
Fire ==
    /\ app.pc = "started"
    /\ app.sched = "running"
    /\ app.due < MaxFirings
    /\ app' = IF app.in_flight < MaxInstances
              THEN [app EXCEPT !.due = @ + 1, !.in_flight = @ + 1]
              ELSE [app EXCEPT !.due = @ + 1, !.skipped = @ + 1]
    /\ UNCHANGED <<retry, resultVars, syncResult, syncVars, iv, batch, dlVars>>

\* An execution of the job ends.  An exception that leaves the job is
\* logged by the scheduler's executor; the scheduler goes on.
JobEnds ==
    /\ app.in_flight > 0
    /\ \E o \in ServiceOutcomes :
         app' = [app EXCEPT !.firings = Append(@, o),
                            !.escaped = Append(@, SyncProducts(o)),
                            !.in_flight = @ - 1]
    /\ UNCHANGED <<retry, resultVars, syncResult, syncVars, iv, batch, dlVars>>

\* SIGINT or SIGTERM is delivered; the installed handler runs in the main
\* thread.  Application's handler clears running; JobScheduler's calls
\* stop().  An exception raised by the handler surfaces in run().
Signal ==
    /\ app.pc \in {"init", "created", "started", "loop", "pause"}
    /\ app.signals < MaxSignals
    /\ LET a == [app EXCEPT !.signals = @ + 1] IN
       IF app.handler = "Application"
       THEN app' = [a EXCEPT !.running = FALSE]
       ELSE \E r \in ShutdownOutcomes(app.sched) :
              app' = IF r = "stopped" THEN [a EXCEPT !.sched = "stopped"]
                     ELSE IF r = "raises" THEN AppExit(a, ExitCodeOnError)
                     ELSE IF app.pc = "pause" THEN [a EXCEPT !.pc = "loop"]
                     ELSE a
    /\ UNCHANGED <<retry, resultVars, syncResult, syncVars, iv, batch, dlVars>>

\* BlockingScheduler.start() returns once the scheduler is stopped;
\* shutdown() waits for the executions in progress.
StartReturns ==
    /\ app.pc = "started"
    /\ app.sched = "stopped"
    /\ app.in_flight = 0
    /\ app' = [app EXCEPT !.pc = "loop"]
    /\ UNCHANGED <<retry, resultVars, syncResult, syncVars, iv, batch, dlVars>>

\* `while self.running: signal.pause()`, then scheduler.stop(); return 0.
LoopCheck ==
    /\ app.pc = "loop"
    /\ IF app.running
       THEN app' = [app EXCEPT !.pc = "pause"]
       ELSE \E r \in ShutdownOutcomes(app.sched) :
              app' = AppExit(app, IF r = "raises" THEN ExitCodeOnError ELSE 0)
    /\ UNCHANGED <<retry, resultVars, syncResult, syncVars, iv, batch, dlVars>>

(***************************************************************************)
(* ivanti-data-loader: plugins/registry.py                                  *)
(***************************************************************************)
\* Plugin names and the classes registered under them.
PluginKinds == {"readers", "transformers", "loaders"}
PluginNames == {"excel", "ivanti"}
PluginClasses == {"ClsA", "ClsB"}
Unregistered == "-"

\* The class-level maps as the class body leaves them, and the record of the
\* calls made on them: the number of calls, the class first registered under
\* each name, the last call and how it ended.
NoRegistryCall ==
    [op |-> "-", kind |-> "-", name |-> "-", cls |-> "-",
     raised |-> "none", returned |-> "-",
     before |-> [k \in PluginKinds |-> [n \in PluginNames |-> Unregistered]]]

RegistryEmpty ==
    [maps |-> [k \in PluginKinds |-> [n \in PluginNames |-> Unregistered]],
     first |-> [k \in PluginKinds |-> [n \in PluginNames |-> Unregistered]],
     calls |-> 0, last |-> NoRegistryCall]

\* register_reader / register_transformer / register_loader: the decorator
\* applied to a class.
RegisterOverrides(maps, kind, name, cls) ==
    [maps |-> [maps EXCEPT ![kind][name] = cls], raised |-> "none"]
Register(maps, kind, name, cls) ==
    IF maps[kind][name] # Unregistered
    THEN [maps |-> maps, raised |-> "PluginError"]
    ELSE [maps |-> [maps EXCEPT ![kind][name] = cls], raised |-> "none"]

\* get_reader / get_transformer / get_loader
GetPlugin(maps, kind, name) ==
    IF maps[kind][name] = Unregistered
    THEN [returned |-> "-", raised |-> "PluginError"]
    ELSE [returned |-> maps[kind][name], raised |-> "none"]

RegistryRegister ==
    /\ registry.calls < MaxRegistryCalls
    /\ \E k \in PluginKinds, n \in PluginNames, c \in PluginClasses :
         LET r == Register(registry.maps, k, n, c) IN
         registry' =
           [maps |-> r.maps,
            first |-> IF registry.first[k][n] = Unregistered
                         /\ r.raised = "none"
                      THEN [registry.first EXCEPT ![k][n] = c]
                      ELSE registry.first,
            calls |-> registry.calls + 1,
            last |-> [op |-> "register", kind |-> k, name |-> n, cls |-> c,
                      raised |-> r.raised, returned |-> "-",
                      before |-> registry.maps]]
    /\ UNCHANGED <<ingestorVars, pipe, loader, mapper, excel>>

RegistryGet ==
    /\ registry.calls < MaxRegistryCalls
    /\ \E k \in PluginKinds, n \in PluginNames :
         LET r == GetPlugin(registry.maps, k, n) IN
         registry' =
           [registry EXCEPT
              !.calls = @ + 1,
              !.last = [op |-> "get", kind |-> k, name |-> n, cls |-> "-",
                        raised |-> r.raised, returned |-> r.returned,
                        before |-> registry.maps]]
    /\ UNCHANGED <<ingestorVars, pipe, loader, mapper, excel>>

(***************************************************************************)
(* ivanti-data-loader: core/pipeline.py and __main__.py                     *)
(***************************************************************************)
\* Row numbers carried by the records a reader returns.
RowNumbers == {4, 5}

\* The plugins the pipeline resolves: "contract" stands for any reader,
\* transformer and loader that follow the abstract classes of core/base.py;
\* "src" for ExcelReader, FieldMapper and IvantiLoader as the pipeline
\* constructs them.
PluginSets == {"contract", "src"}

\* Pipeline.__init__: "none" or the error raised.  _create_transformer hands
\* the list of mappings to FieldMapper.__init__, which reads config.mappings,
\* and _create_loader hands the target dictionary to IvantiLoader.__init__,
\* which reads config.auth: each is an AttributeError, wrapped in
\* PipelineError.  With other plugins construction may succeed or fail.
ConstructOutcomes(plugins) ==
    IF plugins = "src" THEN {"PipelineError"} ELSE {"none", "PipelineError"}

\* DataReader.read, DataTransformer.transform, DataLoader.load: how a call
\* may end.
ReadOutcomes == {"records", "ReaderError"}
TransformOutcomes == {"data", "TransformerError"}
LoadOutcomes == {"true", "false", "LoaderError"}

\* Pipeline._process_record: the value returned, and whether load was called.
ProcessRecord(t, l) ==
    [ok |-> t = "data" /\ l = "true", loaded |-> t = "data"]

\* Pipeline.execute, loop body: the LoadResult after one record.
RecordLoadOutcomeNothing(r, ok, row) == IF ok THEN LoadRecordSuccess(r) ELSE r
RecordLoadOutcome(r, ok, row) ==
    IF ok THEN LoadRecordSuccess(r)
    ELSE LoadRecordFailure(r, row, "m1")

\* Pipeline.execute: `except Exception` wraps whatever leaves the body.
ExecuteWrapsSwallowed(err) == "none"
ExecuteWraps(err) == "PipelineError"

\* main: the exit code after execute() returned.
ExitCodeAlwaysZero(failed) == 0
ExitCode(failed) == IF failed > 0 THEN 1 ELSE 0

PipeFreshResult ==
    [total |-> 0, successful |-> 0, failed |-> 0, skipped |-> 0,
     errors |-> [n \in RowNumbers |-> NoError], completed |-> FALSE]

PipeIdle ==
    [plugins |-> "contract", source |-> << >>, pc |-> "idle", i |-> 1,
     handled |-> << >>, outcomes |-> << >>, transformed |-> 0, loaded |-> 0,
     result |-> PipeFreshResult, read_raised |-> FALSE, raised |-> "none",
     returned |-> FALSE, exit_code |-> -1,
     again |-> 0, before |-> PipeFreshResult]

\* main up to pipeline.execute(): Pipeline(config_path=args.config).
PipeConstruct ==
    /\ pipe.pc = "start"
    /\ \E c \in ConstructOutcomes(pipe.plugins) :
         pipe' = IF c = "none" THEN [pipe EXCEPT !.pc = "constructed"]
                 ELSE [pipe EXCEPT !.pc = "exited", !.raised = c,
                                   !.exit_code = 1]
    /\ UNCHANGED <<ingestorVars, registry, loader, mapper, excel>>

\* execute(): records = self._reader.read()
PipeRead ==
    /\ pipe.pc = "constructed"
    /\ \E r \in ReadOutcomes :
         pipe' = IF r = "records" THEN [pipe EXCEPT !.pc = "loop"]
                 ELSE LET e == ExecuteWraps(r) IN
                      [pipe EXCEPT !.pc = "exited", !.read_raised = TRUE,
                                   !.raised = e,
                                   !.returned = e = "none",
                                   !.exit_code =
                                       IF e = "none"
                                       THEN ExitCode(pipe.result.failed)
                                       ELSE 1]
    /\ UNCHANGED <<ingestorVars, registry, loader, mapper, excel>>

\* execute(): one iteration of `for record in records`.
PipeRecord ==
    /\ pipe.pc = "loop"
    /\ pipe.i <= Len(pipe.source)
    /\ \E t \in TransformOutcomes, l \in LoadOutcomes :
         LET row == pipe.source[pipe.i]
             p == ProcessRecord(t, l)
         IN
         pipe' = [pipe EXCEPT
                    !.i = @ + 1,
                    !.handled = Append(@, row),
                    !.outcomes = Append(@, IF p.ok THEN "success"
                                           ELSE IF t # "data" THEN t
                                           ELSE l),
                    !.transformed = @ + 1,
                    !.loaded = IF p.loaded THEN @ + 1 ELSE @,
                    !.result = RecordLoadOutcome(@, p.ok, row)]
    /\ UNCHANGED <<ingestorVars, registry, loader, mapper, excel>>

\* execute(): complete(), _log_results(), return; then main exits.
PipeReturn ==
    /\ pipe.pc = "loop"
    /\ pipe.i > Len(pipe.source)
    /\ pipe' = [pipe EXCEPT !.pc = "exited", !.returned = TRUE,
                            !.result = LoadComplete(@),
                            !.exit_code = ExitCode(pipe.result.failed)]
    /\ UNCHANGED <<ingestorVars, registry, loader, mapper, excel>>

\* execute(), on entry: what becomes of self._result, the LoadResult made
\* by __init__ (execute does not assign it).
ExecuteStartsAfresh(r) == PipeFreshResult
ExecuteStartsWith(r) == r

\* A caller that holds the Pipeline calls execute() again after it returned.
PipeExecuteAgain ==
    /\ pipe.pc = "exited"
    /\ pipe.returned
    /\ pipe.again < MaxExecutions
    /\ pipe' = [pipe EXCEPT
                 !.pc = "constructed", !.returned = FALSE, !.i = 1,
                 !.handled = << >>, !.outcomes = << >>,
                 !.again = @ + 1,
                 !.before = pipe.result,
                 !.result = ExecuteStartsWith(pipe.result)]
    /\ UNCHANGED <<ingestorVars, registry, loader, mapper, excel>>

(***************************************************************************)
(* ivanti-data-loader: plugins/loaders/ivanti.py                            *)
(***************************************************************************)
\* IvantiLoaderConfig.retry_attempts (default); one hour, in seconds.
RetryAttempts == 3
HourSeconds == 3600
LoaderClockStep == 1800
NoExpiry == -1

\* How the token endpoint, the HEAD request and a write request may be
\* answered.
AuthAnswers == {"token", "error"}
HeadAnswers == {"200", "404", "TransportError"}
WriteAnswers == {"2xx", "error"}

\* _authenticate, lines 80-82: `datetime` is the class imported from the
\* datetime module, which has no attribute timedelta; evaluating
\* datetime.timedelta(hours=1) raises AttributeError.
ExpiryExpression(now) == "AttributeError"

\* _authenticate against an endpoint that answers `a`: the token is stored
\* as soon as the response is parsed, then the expiry is computed; any
\* exception becomes LoaderError.
LoaderAuthenticate(l, a) ==
    IF a # "token" THEN [l |-> l, raised |-> "LoaderError"]
    ELSE LET t == [l EXCEPT !.auth_token = TRUE, !.issued_at = l.now]
             e == ExpiryExpression(l.now)
         IN IF e = "AttributeError"
            THEN [l |-> t, raised |-> "LoaderError"]
            ELSE [l |-> [t EXCEPT !.auth_expiry = e], raised |-> "none"]

\* _ensure_authenticated: the condition under which it authenticates.
NeedsAuthentication(l) ==
    \/ ~l.auth_token
    \/ l.auth_expiry = NoExpiry
    \/ l.now >= l.auth_expiry

\* load(), the loop over range(retry_attempts) from attempt k on: ws[k] is
\* the answer to the k-th write, as the token endpoint's answer to a
\* re-authentication.
\* The result carries the loader, the writes and token requests made, and
\* how load() ends.
RECURSIVE LoadAttempts(_, _, _, _, _, _)
LoadAttempts(l, k, ws, as, writes, posts) ==
    IF k > l.retry_attempts
    THEN [l |-> l, writes |-> writes, posts |-> posts,
          returned |-> "false", raised |-> "none"]
    ELSE IF ws[k] = "2xx"
    THEN [l |-> l, writes |-> writes + 1, posts |-> posts,
          returned |-> "true", raised |-> "none"]
    ELSE IF k = l.retry_attempts
    THEN [l |-> l, writes |-> writes + 1, posts |-> posts,
          returned |-> "-", raised |-> "LoaderError"]
    ELSE LET a == LoaderAuthenticate(l, as) IN
         IF a.raised # "none"
         THEN [l |-> a.l, writes |-> writes + 1, posts |-> posts + 1,
               returned |-> "-", raised |-> "LoaderError"]
         ELSE LoadAttempts(a.l, k + 1, ws, as, writes + 1, posts + 1)

\* _entity_exists: true only on status 200; load() then sends PUT requests
\* (_update_entity) if it is true and POST requests (_create_entity) if not.
WriteKind(head) == IF head = "200" THEN "PUT" ELSE "POST"

\* load(data): authenticate if needed, require data["id"], HEAD for
\* existence, then the attempts.  first is the token endpoint's answer to
\* _ensure_authenticated.
Load(l, has_id, first, head, ws, as) ==
    LET a == IF NeedsAuthentication(l) THEN LoaderAuthenticate(l, first)
             ELSE [l |-> l, raised |-> "none"]
        p == IF NeedsAuthentication(l) THEN 1 ELSE 0
        stop == [l |-> a.l, writes |-> 0, posts |-> p, heads |-> 0,
                 kind |-> "-", returned |-> "-", raised |-> "LoaderError"]
    IN IF a.raised # "none" \/ ~has_id THEN stop
       ELSE IF head = "TransportError" THEN [stop EXCEPT !.heads = 1]
       ELSE LET r == LoadAttempts(a.l, 1, ws, as, 0, p) IN
            [l |-> r.l, writes |-> r.writes, posts |-> r.posts, heads |-> 1,
             kind |-> IF r.writes > 0 THEN WriteKind(head) ELSE "-",
             returned |-> r.returned, raised |-> r.raised]

NoLoad ==
    [at |-> 0, has_id |-> TRUE, first |-> "-", head |-> "-",
     ws |-> [k \in 1..RetryAttempts |-> "-"], as |-> "-",
     needed_auth |-> FALSE, issued_before |-> NoExpiry,
     writes |-> 0, posts |-> 0, heads |-> 0, kind |-> "-",
     returned |-> "-", raised |-> "none"]

\* __init__: no token, no expiry; retry_attempts is the configured value.
LoaderFresh ==
    [now |-> 0, auth_token |-> FALSE, auth_expiry |-> NoExpiry,
     issued_at |-> NoExpiry, calls |-> 0, last |-> NoLoad,
     retry_attempts |-> RetryAttempts]

LoaderIdle == LoaderFresh

\* Time passes between calls.
LoaderTick ==
    /\ loader.now + LoaderClockStep <= MaxLoaderClock
    /\ loader' = [loader EXCEPT !.now = @ + LoaderClockStep]
    /\ UNCHANGED <<ingestorVars, registry, pipe, mapper, excel>>

\* One call of load() against an API that answers as drawn.
LoaderLoad ==
    /\ loader.calls < MaxLoads
    /\ \E has_id \in BOOLEAN, first \in AuthAnswers, head \in HeadAnswers,
          ws \in [1..RetryAttempts -> WriteAnswers], as \in AuthAnswers :
         LET r == Load(loader, has_id, first, head, ws, as) IN
         loader' =
           [r.l EXCEPT
              !.calls = @ + 1,
              !.last = [at |-> loader.now, has_id |-> has_id,
                        first |-> first, head |-> head, ws |-> ws, as |-> as,
                        needed_auth |-> NeedsAuthentication(loader),
                        issued_before |-> loader.issued_at,
                        writes |-> r.writes, posts |-> r.posts,
                        heads |-> r.heads, kind |-> r.kind,
                        returned |-> r.returned, raised |-> r.raised]]
    /\ UNCHANGED <<ingestorVars, registry, pipe, mapper, excel>>

(***************************************************************************)
(* ivanti-data-loader: plugins/transformers/field_mapper.py                 *)
(***************************************************************************)
\* Python values as the mapper meets them: None, a string (a sequence of
\* characters), an int, a bool (n is 0 or 1) or a float with integral value.
PyValue(k, s, n) == [k |-> k, s |-> s, n |-> n]
NoneValue == PyValue("none", << >>, 0)

\* Values a source field may hold, and values a default_value may be.
FieldValues ==
    {PyValue("str", <<" ", "a">>, 0), PyValue("str", <<"A">>, 0),
     PyValue("str", <<"1">>, 0), PyValue("int", << >>, 1),
     PyValue("bool", << >>, 1)}
DefaultValues == {NoneValue, PyValue("int", << >>, 0)}

\* The keys of _transform_functions.
KnownTransforms ==
    {"string", "int", "float", "bool", "strip", "upper", "lower"}

\* Segments of a transform string between the '|' separators, as written.
RawSegments == {"upper", "lower", "strip", "int", " lower ", "bogus"}

\* t.strip() for a segment.
StripSegment(t) == IF t = " lower " THEN "lower" ELSE t

\* The functions of class FieldTransform, by key.
FieldTransform(name, v) ==
    LET Digit == <<"0", "1", "2", "3", "4", "5", "6", "7", "8", "9">>
        Lowers == <<"a", "t", "r", "u", "e", "f", "l", "s">>
        Uppers == <<"A", "T", "R", "U", "E", "F", "L", "S">>
        Up(c) == IF \E i \in 1..Len(Lowers) : Lowers[i] = c
                 THEN Uppers[CHOOSE i \in 1..Len(Lowers) : Lowers[i] = c]
                 ELSE c
        Low(c) == IF \E i \in 1..Len(Uppers) : Uppers[i] = c
                  THEN Lowers[CHOOSE i \in 1..Len(Uppers) : Uppers[i] = c]
                  ELSE c
        Digits(n) == IF n < 10 THEN <<Digit[n + 1]>>
                     ELSE <<Digit[(n \div 10) + 1], Digit[(n % 10) + 1]>>
        \* str(value)
        Str(x) == IF x.k = "str" THEN x.s
                  ELSE IF x.k = "int" THEN Digits(x.n)
                  ELSE IF x.k = "float" THEN Digits(x.n) \o <<".", "0">>
                  ELSE IF x.n = 1 THEN <<"T", "r", "u", "e">>
                  ELSE <<"F", "a", "l", "s", "e">>
        RECURSIVE LStrip(_)
        LStrip(q) == IF q # << >> /\ Head(q) = " " THEN LStrip(Tail(q)) ELSE q
        RECURSIVE RStrip(_)
        RStrip(q) == IF q # << >> /\ q[Len(q)] = " "
                     THEN RStrip(SubSeq(q, 1, Len(q) - 1)) ELSE q
        Strip(q) == RStrip(LStrip(q))
        IsDigit(c) == \E i \in 1..10 : Digit[i] = c
        DigitOf(c) == (CHOOSE i \in 1..10 : Digit[i] = c) - 1
        RECURSIVE Number(_)
        Number(q) == IF q = << >> THEN 0
                     ELSE 10 * Number(SubSeq(q, 1, Len(q) - 1))
                          + DigitOf(q[Len(q)])
        AllDigits(q) == q # << >> /\ \A i \in 1..Len(q) : IsDigit(q[i])
        \* float(value): the number, or -1 for ValueError
        ToNumber(x) ==
            IF x.k # "str" THEN x.n
            ELSE LET q == Strip(x.s) IN
                 IF AllDigits(q) THEN Number(q)
                 ELSE IF Len(q) > 2 /\ SubSeq(q, Len(q) - 1, Len(q)) = <<".", "0">>
                         /\ AllDigits(SubSeq(q, 1, Len(q) - 2))
                 THEN Number(SubSeq(q, 1, Len(q) - 2))
                 ELSE -1
        Truthy == {<<"t", "r", "u", "e">>, <<"y", "e", "s">>, <<"1">>,
                   <<"o", "n">>}
    IN
    IF name = "string"
    THEN PyValue("str", IF v.k = "none" THEN << >> ELSE Str(v), 0)
    ELSE IF name = "strip"
    THEN PyValue("str", IF v.k = "none" THEN << >> ELSE Strip(Str(v)), 0)
    ELSE IF name = "upper"
    THEN PyValue("str", IF v.k = "none" THEN << >>
                        ELSE [i \in 1..Len(Str(v)) |-> Up(Str(v)[i])], 0)
    ELSE IF name = "lower"
    THEN PyValue("str", IF v.k = "none" THEN << >>
                        ELSE [i \in 1..Len(Str(v)) |-> Low(Str(v)[i])], 0)
    ELSE IF name \in {"int", "float"}
    THEN IF v.k = "none" \/ ToNumber(v) = -1 THEN NoneValue
         ELSE PyValue(name, << >>, ToNumber(v))
    ELSE \* "bool"
         IF v.k = "bool" THEN v
         ELSE IF v.k = "str"
         THEN PyValue("bool", << >>,
                      IF [i \in 1..Len(v.s) |-> Low(v.s[i])] \in Truthy
                      THEN 1 ELSE 0)
         ELSE IF v.k \in {"int", "float"}
         THEN PyValue("bool", << >>, IF v.n # 0 THEN 1 ELSE 0)
         ELSE NoneValue

\* _apply_transform for the segments of transform.split('|'): the value
\* returned, or the TransformerError raised and the name it carries.
RECURSIVE ApplyTransformRightToLeft(_, _)
ApplyTransformRightToLeft(value, segs) ==
    IF segs = << >> THEN [value |-> value, raised |-> "none", named |-> "-"]
    ELSE LET t == StripSegment(segs[Len(segs)]) IN
         IF t \notin KnownTransforms
         THEN [value |-> NoneValue, raised |-> "TransformerError", named |-> t]
         ELSE ApplyTransformRightToLeft(FieldTransform(t, value),
                                        SubSeq(segs, 1, Len(segs) - 1))
RECURSIVE ApplyTransform(_, _)
ApplyTransform(value, segs) ==
    IF segs = << >> THEN [value |-> value, raised |-> "none", named |-> "-"]
    ELSE LET t == StripSegment(Head(segs)) IN
         IF t \notin KnownTransforms
         THEN [value |-> NoneValue, raised |-> "TransformerError", named |-> t]
         ELSE ApplyTransform(FieldTransform(t, value), Tail(segs))

\* transform(), the handling of a source value that is None or absent: the
\* field is skipped, a value is used, or TransformerError names the field.
MissingSourceDefaultFirst(ignore_missing, default, field) ==
    IF default # NoneValue
    THEN [skip |-> FALSE, value |-> default, raised |-> "none", named |-> "-"]
    ELSE IF ignore_missing
    THEN [skip |-> TRUE, value |-> NoneValue, raised |-> "none", named |-> "-"]
    ELSE [skip |-> FALSE, value |-> NoneValue,
          raised |-> "TransformerError", named |-> field]
MissingSource(ignore_missing, default, field) ==
    IF ignore_missing
    THEN [skip |-> TRUE, value |-> NoneValue, raised |-> "none", named |-> "-"]
    ELSE IF default # NoneValue
    THEN [skip |-> FALSE, value |-> default, raised |-> "none", named |-> "-"]
    ELSE [skip |-> FALSE, value |-> NoneValue,
          raised |-> "TransformerError", named |-> field]

SourceFields == {"f1", "f2"}
TargetFields == <<"t1", "t2">>
\* data.get(source_field) of a key the record does not have.
Absent == PyValue("absent", << >>, 0)

NoMapping ==
    [source |-> "-", target |-> "-", segs |-> << >>, default |-> NoneValue,
     missing |-> FALSE, skipped |-> FALSE, applied_to |-> NoneValue]

\* A FieldMapper and the record handed to transform(): nothing mapped yet.
MapperStart(data, ignore_missing) ==
    [pc |-> "mapping", data |-> data, ignore_missing |-> ignore_missing,
     k |-> 1, result |-> [t \in {} |-> NoneValue], last |-> NoMapping,
     raised |-> "none", named |-> "-", returned |-> FALSE]

MapperIdle ==
    [MapperStart([f \in SourceFields |-> Absent], FALSE) EXCEPT !.pc = "idle"]

\* The mappings of the configuration: the first copies f2 as it is, the
\* second is any mapping with a transform string of up to MaxChain segments.
MappingSources(k) == IF k = 1 THEN {"f2"} ELSE SourceFields
MappingTransforms(k) ==
    IF k = 1 THEN {<< >>}
    ELSE UNION {[1..n -> RawSegments] : n \in 0..MaxChain}

\* transform(): one iteration of `for mapping in self.config`.
MapperField ==
    /\ mapper.pc = "mapping"
    /\ mapper.k <= Len(TargetFields)
    /\ \E src \in MappingSources(mapper.k), default \in DefaultValues,
          segs \in MappingTransforms(mapper.k) :
         LET target == TargetFields[mapper.k]
             held == mapper.data[src]
             missing == held = Absent \/ held = NoneValue
             m == IF missing
                  THEN MissingSource(mapper.ignore_missing, default, src)
                  ELSE [skip |-> FALSE, value |-> held, raised |-> "none",
                        named |-> "-"]
             a == IF m.skip \/ m.raised # "none"
                  THEN [value |-> NoneValue, raised |-> m.raised,
                        named |-> m.named]
                  ELSE ApplyTransform(m.value, segs)
             last == [source |-> src, target |-> target, segs |-> segs,
                      default |-> default, missing |-> missing,
                      skipped |-> m.skip, applied_to |-> m.value]
         IN
         mapper' =
           IF a.raised # "none"
           THEN [mapper EXCEPT !.pc = "raised", !.raised = a.raised,
                               !.named = a.named, !.last = last,
                               !.result = [t \in {} |-> NoneValue]]
           ELSE [mapper EXCEPT
                   !.k = @ + 1, !.last = last,
                   !.result = IF m.skip THEN @
                              ELSE [t \in DOMAIN @ \cup {target} |->
                                      IF t = target THEN a.value ELSE @[t]]]
    /\ UNCHANGED <<ingestorVars, registry, pipe, loader, excel>>

\* transform(): after the last mapping, return the result.
MapperReturn ==
    /\ mapper.pc = "mapping"
    /\ mapper.k > Len(TargetFields)
    /\ mapper' = [mapper EXCEPT !.pc = "returned", !.returned = TRUE]
    /\ UNCHANGED <<ingestorVars, registry, pipe, loader, excel>>

(***************************************************************************)
(* ivanti-data-loader: plugins/readers/excel.py                             *)
(***************************************************************************)
SheetColumns == {"id", "name"}
EmptyCell == "None"          \* pd.isna(value): the cell becomes None
CellValues == {"x", EmptyCell}
HeaderRows == {0, 1}
SkipRows == {0, 2}
ReadExcelAnswers == {"ok", "error"}

\* validate(): every required column is a key of record.data holding a value.
ValidateKeysOnly(data, required_columns) ==
    \A column \in required_columns : column \in DOMAIN data
Validate(data, required_columns) ==
    \A column \in required_columns :
        column \in DOMAIN data /\ data[column] # EmptyCell

\* The row_number read() gives the row at DataFrame index `index`.
RowNumber(index, header_row, skip_rows) == index + header_row + skip_rows + 2

\* An ExcelReader on a sheet with the given columns, before read().
ExcelStart(columns, required_columns, header_row, skip_rows) ==
    [pc |-> "ready", columns |-> columns,
     required_columns |-> required_columns,
     header_row |-> header_row, skip_rows |-> skip_rows,
     rows |-> << >>, records |-> << >>, raised |-> "none"]

ExcelIdle == [ExcelStart({"id"}, {}, 0, 0) EXCEPT !.pc = "idle"]

\* read(): pd.read_excel, then the required-columns check.
ExcelOpen ==
    /\ excel.pc = "ready"
    /\ \E answer \in ReadExcelAnswers :
         excel' =
           IF answer = "error" \/ excel.required_columns \ excel.columns # {}
           THEN [excel EXCEPT !.pc = "raised", !.raised = "ReaderError"]
           ELSE [excel EXCEPT !.pc = "rows"]
    /\ UNCHANGED <<ingestorVars, registry, pipe, loader, mapper>>

\* read(): one iteration of `for index, row in df.iterrows()`.
ExcelRow ==
    /\ excel.pc = "rows"
    /\ Len(excel.rows) < MaxRows
    /\ \E data \in [excel.columns -> CellValues] :
         LET index == Len(excel.rows)
             record == [row_number |-> RowNumber(index, excel.header_row,
                                                 excel.skip_rows),
                        data |-> data]
         IN excel' = [excel EXCEPT
                        !.rows = Append(@, data),
                        !.records =
                          IF Validate(data, excel.required_columns)
                          THEN Append(@, record) ELSE @]
    /\ UNCHANGED <<ingestorVars, registry, pipe, loader, mapper>>

\* read(): the sheet has no further row; return records.
ExcelReturn ==
    /\ excel.pc = "rows"
    /\ excel' = [excel EXCEPT !.pc = "returned"]
    /\ UNCHANGED <<ingestorVars, registry, pipe, loader, mapper>>

(***************************************************************************)
(* ivanti-data-loader: components at rest                                   *)
(***************************************************************************)

DataLoaderAtRest ==
    /\ registry = RegistryEmpty
    /\ pipe = PipeIdle
    /\ loader = LoaderIdle
    /\ mapper = MapperIdle
    /\ excel = ExcelIdle

(***************************************************************************)
(* Specifications                                                          *)
(***************************************************************************)
\* The service and its repositories at rest.
SyncAtRest ==
    /\ productRepo = "contract"
    /\ remote = [p \in Products |-> "absent"]
    /\ deliveries = << >>
    /\ mq = MqFresh
    /\ svc = SvcIdle
    /\ log = [t \in Tags |-> FreshLog]
    /\ iv = IvFresh
    /\ batch = BatchIdle
    /\ app = AppIdle
    /\ DataLoaderAtRest

InitRetry ==
    /\ \E cfg \in RetryConfigs : retry = RetryStart(cfg)
    /\ loadResult = FreshResult
    /\ syncResult = FreshResult
    /\ resultCalls = ResultCallsIdle
    /\ SyncAtRest

NextRetry ==
    \/ WrapperReturns
    \/ WrapperRaisesLast
    \/ WrapperRetries
    \/ WrapperRaisesOther
    \/ WrapperCalled

SpecRetry == InitRetry /\ [][NextRetry]_vars

InitResult ==
    /\ retry = RetryIdle
    /\ loadResult = FreshResult
    /\ syncResult = FreshResult
    /\ resultCalls = ResultCallsIdle
    /\ SyncAtRest

NextResult ==
    \/ CallLoadRecordSuccess
    \/ CallLoadRecordFailure
    \/ CallLoadRecordSkip
    \/ CallLoadComplete
    \/ CallSyncRecordSuccess
    \/ CallSyncRecordFailure
    \/ CallSyncRecordSkip

SpecResult == InitResult /\ [][NextResult]_vars

\* The product sync service constructed over a RabbitMQRepository and a
\* ProductRepository of the given kind.
InitService(kind) ==
    /\ retry = RetryIdle
    /\ loadResult = FreshResult
    /\ syncResult = FreshResult
    /\ resultCalls = ResultCallsIdle
    /\ productRepo = kind
    /\ remote \in [Products -> IF kind = "ivanti" THEN RemoteStates
                                ELSE {"absent", "present"}]
    /\ deliveries \in DeliverySeqs
    /\ mq = MqFresh
    /\ svc = SvcIdle
    /\ log = [t \in Tags |-> FreshLog]
    /\ iv = IvFresh
    /\ batch = BatchIdle
    /\ app = AppIdle
    /\ DataLoaderAtRest

NextSync ==
    \/ ProcessMessagesStart
    \/ ConsumerPull
    \/ HandleMessage

\* The service against the ProductRepository contract.
InitSync == InitService("contract")
SpecSync == InitSync /\ [][NextSync]_vars

\* The service as container.py wires it, over IvantiRepository.
InitWired == InitService("ivanti")
SpecWired == InitWired /\ [][NextSync]_vars

\* One IvantiRepository, as constructed, and its callers.
InitIvanti ==
    /\ retry = RetryIdle
    /\ loadResult = FreshResult
    /\ syncResult = FreshResult
    /\ resultCalls = ResultCallsIdle
    /\ SyncAtRest

NextIvanti ==
    \/ Tick
    \/ CallStart
    \/ AuthAttempt
    \/ SendRequest
    \/ Disconnect

SpecIvanti == InitIvanti /\ [][NextIvanti]_vars

\* One IvantiRepository whose callers connect, reconnect and disconnect it.
NextConnection ==
    \/ Tick
    \/ ConnectStart
    \/ AuthAttempt
    \/ Disconnect

SpecConnection == InitIvanti /\ [][NextConnection]_vars

RestOfProgramAtRest ==
    /\ retry = RetryIdle
    /\ loadResult = FreshResult
    /\ syncResult = FreshResult
    /\ resultCalls = ResultCallsIdle
    /\ productRepo = "contract"
    /\ remote = [p \in Products |-> "absent"]
    /\ deliveries = << >>
    /\ mq = MqFresh
    /\ svc = SvcIdle
    /\ log = [t \in Tags |-> FreshLog]
    /\ iv = IvFresh
    /\ DataLoaderAtRest

\* One call of batch_process_products with any list of up to MaxBatch
\* products and any operation.
BatchInputs ==
    UNION {[1..n -> Products] : n \in 0..MaxBatch}

InitBatch ==
    /\ RestOfProgramAtRest
    /\ \E ps \in BatchInputs, op \in BatchOperations :
         batch = BatchStart(ps, op)
    /\ app = AppIdle

NextBatch ==
    \/ BatchItem
    \/ BatchReturn

SpecBatch == InitBatch /\ [][NextBatch]_vars

\* The process started with or without --run-now.
InitApp ==
    /\ RestOfProgramAtRest
    /\ batch = BatchIdle
    /\ \E mode \in {"run_now", "scheduled"} : app = AppFresh(mode)

NextApp ==
    \/ CreateScheduler
    \/ RunNow
    \/ SchedulerStart
    \/ Fire
    \/ JobEnds
    \/ Signal
    \/ StartReturns
    \/ LoopCheck

SpecApp == InitApp /\ [][NextApp]_vars

\* The main thread runs whenever it is not blocked and an execution of the
\* job in progress ends; signals and cron firings come from outside and are
\* not forced.
AppMainThread ==
    \/ CreateScheduler
    \/ RunNow
    \/ SchedulerStart
    \/ StartReturns
    \/ LoopCheck

SpecAppFair == SpecApp /\ WF_vars(AppMainThread) /\ WF_vars(JobEnds)

\* The ingestor at rest: the data loader is a separate program.
IngestorAtRest ==
    /\ retry = RetryIdle
    /\ loadResult = FreshResult
    /\ syncResult = FreshResult
    /\ resultCalls = ResultCallsIdle
    /\ productRepo = "contract"
    /\ remote = [p \in Products |-> "absent"]
    /\ deliveries = << >>
    /\ mq = MqFresh
    /\ svc = SvcIdle
    /\ log = [t \in Tags |-> FreshLog]
    /\ iv = IvFresh
    /\ batch = BatchIdle
    /\ app = AppIdle

\* The plugin registry after the class body has run, and its callers.
InitRegistry ==
    /\ IngestorAtRest
    /\ registry = RegistryEmpty
    /\ pipe = PipeIdle
    /\ loader = LoaderIdle
    /\ mapper = MapperIdle
    /\ excel = ExcelIdle

NextRegistry ==
    \/ RegistryRegister
    \/ RegistryGet

SpecRegistry == InitRegistry /\ [][NextRegistry]_vars

\* The data loader started from the command line, for any source of up to
\* MaxRecords records.
PipeSources ==
    UNION {[1..n -> RowNumbers] : n \in 0..MaxRecords}

InitPipe ==
    /\ IngestorAtRest
    /\ registry = RegistryEmpty
    /\ \E src \in PipeSources, ps \in PluginSets :
         pipe = [PipeIdle EXCEPT !.pc = "start", !.source = src,
                                 !.plugins = ps]
    /\ loader = LoaderIdle
    /\ mapper = MapperIdle
    /\ excel = ExcelIdle

NextPipe ==
    \/ PipeConstruct
    \/ PipeRead
    \/ PipeRecord
    \/ PipeReturn

SpecPipe == InitPipe /\ [][NextPipe]_vars

\* A Pipeline used as a library object: execute() may be called again.
NextPipeReuse ==
    \/ PipeConstruct
    \/ PipeRead
    \/ PipeRecord
    \/ PipeReturn
    \/ PipeExecuteAgain

SpecPipeReuse == InitPipe /\ [][NextPipeReuse]_vars

\* One IvantiLoader, as constructed, and its callers.
InitLoader ==
    /\ IngestorAtRest
    /\ registry = RegistryEmpty
    /\ pipe = PipeIdle
    /\ \E n \in {0, RetryAttempts} :
         loader = [LoaderFresh EXCEPT !.retry_attempts = n]
    /\ mapper = MapperIdle
    /\ excel = ExcelIdle

NextLoader ==
    \/ LoaderTick
    \/ LoaderLoad

SpecLoader == InitLoader /\ [][NextLoader]_vars

\* One FieldMapper.transform call, for any record and a configuration with
\* one mapping per target field.
InitMapper ==
    /\ IngestorAtRest
    /\ registry = RegistryEmpty
    /\ pipe = PipeIdle
    /\ loader = LoaderIdle
    /\ \E f1 \in FieldValues \cup {Absent, NoneValue},
          f2 \in {Absent, PyValue("str", <<"A">>, 0)},
          ignore_missing \in BOOLEAN :
         mapper = MapperStart([f \in SourceFields |->
                                 IF f = "f1" THEN f1 ELSE f2],
                              ignore_missing)
    /\ excel = ExcelIdle

NextMapper ==
    \/ MapperField
    \/ MapperReturn

SpecMapper == InitMapper /\ [][NextMapper]_vars

\* One ExcelReader.read call on any sheet of up to MaxRows data rows.
InitExcel ==
    /\ IngestorAtRest
    /\ registry = RegistryEmpty
    /\ pipe = PipeIdle
    /\ loader = LoaderIdle
    /\ mapper = MapperIdle
    /\ \E columns \in {{"id"}, SheetColumns},
          required_columns \in SUBSET SheetColumns,
          header_row \in HeaderRows, skip_rows \in SkipRows :
         excel = ExcelStart(columns, required_columns, header_row, skip_rows)

NextExcel ==
    \/ ExcelOpen
    \/ ExcelRow
    \/ ExcelReturn

SpecExcel == InitExcel /\ [][NextExcel]_vars

(***************************************************************************)
(* Claims                                                                  *)
(***************************************************************************)
Counters(r) == r.successful + r.failed + r.skipped

AllRetryable(calls, n) == \A i \in 1..n : calls[i] = "retryable"

\* C6: with max_attempts = N, an operation that raises a retryable error on
\* its first k invocations (k < N) is invoked again each time, after one wait
\* per failure, and when invocation k+1 succeeds the wrapper returns its
\* result after exactly k+1 invocations and k waits.
C6_RetriedUntilSuccess ==
    LET n == Len(retry.calls) IN
    /\ (retry.pc # "idle" /\ n < retry.cfg.max_attempts
            /\ AllRetryable(retry.calls, n))
         => /\ retry.pc = "running"
            /\ retry.attempt = n + 1
            /\ Len(retry.sleeps) = n
    /\ (n > 0 /\ retry.calls[n] = "ok")
         => /\ retry.pc = "returned" /\ retry.returned
            /\ AllRetryable(retry.calls, n - 1)
            /\ n - 1 < retry.cfg.max_attempts
            /\ Len(retry.sleeps) = n - 1

C6_Witness ==
    /\ retry.pc = "returned"
    /\ retry.cfg.max_attempts = 3
    /\ retry.calls = <<"retryable", "retryable", "ok">>
    /\ Len(retry.sleeps) = 2

\* C7: an operation that raises a retryable error on every invocation is
\* invoked exactly max_attempts times, never more; the wrapper then re-raises
\* that error, having waited max_attempts - 1 times (no wait after the last
\* attempt).
C7_ExhaustionAfterMaxAttempts ==
    LET n == Len(retry.calls) IN
    /\ n <= retry.cfg.max_attempts
    /\ Len(retry.sleeps) <= retry.cfg.max_attempts - 1
    /\ (retry.pc # "idle" /\ n = retry.cfg.max_attempts
            /\ AllRetryable(retry.calls, n))
         => /\ retry.pc = "raised" /\ retry.raised = "retryable"
            /\ Len(retry.sleeps) = n - 1
    /\ (retry.pc = "raised" /\ retry.raised = "retryable")
         => n = retry.cfg.max_attempts /\ AllRetryable(retry.calls, n)

C7_Witness ==
    /\ retry.pc = "raised" /\ retry.raised = "retryable"
    /\ retry.cfg.max_attempts = 3
    /\ retry.calls = <<"retryable", "retryable", "retryable">>
    /\ Len(retry.sleeps) = 2

\* C8: an error that is not of a retryable kind propagates at its first
\* occurrence, also after earlier retryable failures: the operation is not
\* invoked again, and neither a wait nor an on_retry call follows it.
C8_NonRetryablePropagates ==
    LET n == Len(retry.calls) IN
    \A i \in 1..n :
        retry.calls[i] = "other"
          => /\ i = n
             /\ retry.pc = "raised" /\ retry.raised = "other"
             /\ Len(retry.sleeps) = n - 1
             /\ Len(retry.on_retry) =
                    (IF retry.cfg.has_on_retry THEN n - 1 ELSE 0)

C8_Witness ==
    /\ retry.pc = "raised" /\ retry.raised = "other"
    /\ retry.cfg.has_on_retry
    /\ retry.calls = <<"retryable", "other">>
    /\ Len(retry.on_retry) = 1

\* The loop of _process_message_batch has finished with delivery t.
Handled(t) == log[t].yielded /\ ~(svc.pc = "handling" /\ svc.tag = t)

\* Delivery t was converted and its create/update call returned True.
Synchronized(t) == log[t].converted /\ log[t].wrote = "true"

ParseFails(t) ==
    /\ t <= Len(deliveries)
    /\ log[t].pulled
    /\ DecodeAndParse(deliveries[t].body) # "none"

\* C3: a delivery whose body fails JSON parsing is rejected without requeue,
\* is never yielded to the caller (so never reaches the adapter), and
\* consumption continues with the next delivery: the run does not end on it.
C3_BadJsonRejectedAndSkipped ==
    \A t \in Tags :
        ParseFails(t)
          => /\ ~log[t].yielded /\ ~log[t].converted
             /\ log[t].reject_calls = 1
             /\ ~log[t].requeue
             /\ ~(svc.pc = "raised" /\ svc.abort_tag = t)

\* Handling the yielded delivery t failed: the adapter rejected it, the lookup
\* raised, or the create/update returned False or raised.
HandlingFailed(t) == Handled(t) /\ ~Synchronized(t)

\* Failures recorded in the SyncResult under keys of the handled deliveries.
RecordedFailures(n) ==
    LET RECURSIVE Sum(_)
        Sum(k) == IF k = 0 THEN 0 ELSE log[k].failures + Sum(k - 1)
    IN Sum(n)

C5_CreateXorUpdateByExistence ==
    /\ \A t \in Tags :
          (Handled(t) /\ log[t].converted /\ log[t].got # "raise")
            => /\ log[t].creates + log[t].updates = 1
               /\ log[t].updates = 1 <=> log[t].existed # "absent"
    /\ (/\ svc.pc = "returned"
        /\ Len(deliveries) = 1
        /\ log[1].converted /\ log[1].got # "raise"
        /\ log[1].existed = "absent" /\ log[1].answer = "2xx")
          => /\ log[1].creates = 1
             /\ log[1].ack_calls = 1
             /\ syncResult.total = 1 /\ syncResult.successful = 1

\* C9: if the connection or stream is lost in the body of consume_messages,
\* acknowledge_message or reject_message, the repository reconnects and the
\* operation fails with RetryableConnectionError.
C9_LostConnectionReconnectsAndRetryable ==
    mq.failure.cause \in ConnectionLost
      => /\ mq.failure.raised = "RetryableConnectionError"
         /\ mq.failure.reconnected
         /\ mq.connected

\* C10: for any sequence of get/create/update/delete calls on one Ivanti
\* repository, a token request is made only when no token is cached or the
\* cached token has reached its buffered expiry (issue time + expires_in -
\* 300 s).  A call that starts with a usable token makes no token request, so
\* two calls inside the validity window share one exchange; a call that
\* starts without one and sends its request has made exactly one successful
\* exchange before it; no call exchanges more than once.
C10_TokenExchangedOnlyWhenNeeded ==
    /\ ~iv.stale_post
    /\ iv.call.usable_at_start => iv.call.posts = 0 /\ iv.call.exchanges = 0
    /\ iv.call.exchanges <= 1
    /\ iv.call.requests <= 1
    /\ (iv.call.requests = 1 /\ ~iv.call.usable_at_start)
         => iv.call.exchanges = 1
    /\ iv.token => \E e \in ExpiresIn :
                      iv.token_expiry + TokenBuffer - e \in 0..iv.now

\* Three calls that each sent a request: the first two inside one validity
\* window on one exchange, the third after expiry on exactly one more.
C10_Witness ==
    /\ iv.pc = "idle" /\ iv.calls = 3
    /\ iv.requests = 3 /\ iv.exchanges = 2
    /\ ~iv.call.usable_at_start
    /\ iv.call.exchanges = 1 /\ iv.call.requests = 1

\* A get/create/update/delete call on the Ivanti repository has ended.
CrudEnded == iv.pc = "idle" /\ iv.op \in CrudOps

\* C11: a response with status in {408, 429, 500, 502, 503, 504} causes the
\* operation to be re-attempted, at most 3 requests in total (so a call whose
\* last answer was such a status ended only after its third request, with a
\* retryable error); any other non-2xx status, the 404 cases apart, fails
\* with a non-retryable API error after exactly one request.
C11_RetryableStatusReattempted ==
    /\ iv.call.requests <= CrudMaxAttempts
    /\ (CrudEnded /\ iv.call.last \in RetryableCodes)
         => /\ iv.call.requests = CrudMaxAttempts
            /\ iv.call.raised = "RetryableAPIError"
    /\ (CrudEnded /\ iv.call.last = "400")
         => /\ iv.call.requests = 1
            /\ iv.call.raised = "IvantiAPIError"

\* C12: a transport failure during the token exchange or during a CRUD
\* request is re-attempted, up to 3 attempts, and surfaces to the caller only
\* after those attempts are exhausted.
C12_TransportFailureReattempted ==
    /\ (CrudEnded /\ iv.call.raised = "RetryableConnectionError")
         => iv.call.posts >= AuthMaxAttempts
    /\ (CrudEnded /\ iv.call.last = "TransportError")
         => iv.call.requests = CrudMaxAttempts

\* C13: when the API answers 404, get_product returns an absent value and
\* update_product / delete_product return false: no error is raised and the
\* request is sent once.
C13_NotFoundIsNotAnError ==
    (CrudEnded /\ iv.op \in {"get", "update", "delete"}
        /\ iv.call.remote = "404")
      => /\ iv.call.raised = "none"
         /\ iv.call.requests = 1
         /\ iv.call.result = (IF iv.op = "get" THEN "none" ELSE "false")


\* C14: batch_process_products applies the operation to every product of its
\* input, in order and whatever happened to earlier products, and never raises
\* for a per-item error: when it returns, total_processed is the length of
\* the input, successful + failed is that length too, and the error map has
\* an entry under the ID of every product whose operation failed.
BatchItemFailed(k) == batch.outcomes[k] # "true"

MessageFailed(t) == ParseFails(t) \/ HandlingFailed(t)

C15_EveryMessageFailureRecorded ==
    svc.pc = "returned" =>
      /\ \A t \in Tags :
           MessageFailed(t) =>
             /\ log[t].failures = 1
             /\ \E k \in {deliveries[t].pid, TagId(t)} :
                  syncResult.errors[k] # NoError
      /\ syncResult.failed = Cardinality({t \in Tags : MessageFailed(t)})

C18_RunNowExitCodeReflectsFailure ==
    (app.mode = "run_now" /\ app.pc = "exited" /\ app.signals = 0) =>
      /\ Len(app.firings) = 1
      /\ app.firings[1] # "returned" => app.exit_code = 1
      /\ app.exit_code = 0 => app.firings[1] = "returned"

\* C19: an exception raised by the sync service during a scheduled firing is
\* caught inside the job: nothing leaves the job, the scheduler keeps running
\* (until a signal stops it) and later firings still execute.
C19_ScheduledFiringErrorContained ==
    app.mode = "scheduled" =>
      /\ Len(app.escaped) = Len(app.firings)
      /\ \A k \in 1..Len(app.firings) : app.escaped[k] = "none"
      /\ (app.pc = "started" /\ app.signals = 0) => app.sched = "running"
      /\ (app.firings # << >> /\ app.signals = 0) => app.pc = "started"

C19_Witness ==
    /\ app.mode = "scheduled"
    /\ app.firings = <<"ConnectionError", "returned">>
    /\ app.sched = "running"
    /\ app.pc = "started"

\* C20: in scheduled mode, after an interrupt or termination signal is
\* delivered the process eventually stops the scheduler and exits with code
\* 0, without needing a second signal.
C20_SignalStopsAndExitsZero ==
    [](( /\ app.mode = "scheduled"
         /\ app.pc = "started"
         /\ app.sched = "stopped"
         /\ app.signals = 1 )
       => <>( /\ app.pc = "exited"
              /\ app.exit_code = 0
              /\ app.signals = 1 ))

\* C21: while the scheduler runs, at most one execution of the
\* synchronization job is in progress at any time: a firing that comes due
\* while a previous run is still executing is skipped rather than run
\* concurrently.
C21_AtMostOneRunInFlight ==
    /\ app.in_flight <= 1
    /\ app.due = Len(app.firings) + app.in_flight + app.skipped
       \/ app.mode = "run_now"

C21_Witness ==
    /\ app.mode = "scheduled"
    /\ app.sched = "running"
    /\ app.in_flight = 1
    /\ app.skipped = 1
    /\ app.due = 2

\* C22: for each of the registry's three maps and any sequence of
\* operations: a name always resolves to the implementation first registered
\* under it; registering an already-registered name fails with a plugin
\* error and leaves all three maps unchanged; resolving a name that was never
\* registered in that map fails with a plugin error.
C22_RegistryFirstRegistrationWins ==
    /\ registry.maps = registry.first
    /\ LET c == registry.last IN
       /\ (c.op = "register" /\ c.before[c.kind][c.name] # Unregistered)
            => /\ c.raised = "PluginError"
               /\ registry.maps = c.before
       /\ (c.op = "register" /\ c.before[c.kind][c.name] = Unregistered)
            => /\ c.raised = "none"
               /\ registry.maps[c.kind][c.name] = c.cls
       /\ c.op = "get"
            => /\ registry.maps = c.before
               /\ IF registry.first[c.kind][c.name] = Unregistered
                  THEN c.raised = "PluginError" /\ c.returned = "-"
                  ELSE /\ c.raised = "none"
                       /\ c.returned = registry.first[c.kind][c.name]

C22_Witness ==
    /\ registry.calls = 3
    /\ registry.first["readers"]["excel"] = "ClsA"
    /\ registry.last.op = "register"
    /\ registry.last.kind = "readers"
    /\ registry.last.name = "excel"
    /\ registry.last.cls = "ClsB"
    /\ registry.last.raised = "PluginError"
    /\ registry.maps["readers"]["excel"] = "ClsA"
    /\ registry.maps["loaders"]["excel"] = "ClsB"

\* C23: Pipeline.execute() handles records in the order the reader returned
\* them, transforming then loading each; every record yields exactly one
\* outcome, success or a failure keyed by its row number (when transform or
\* load raises or load returns false), and a failing record never prevents
\* later records from being processed, so a freshly constructed pipeline
\* returns total_records equal to the number of records read.
PipeFailedAt(k) == pipe.outcomes[k] # "success"

C23_EveryRecordOneOutcomeInOrder ==
    /\ pipe.handled = SubSeq(pipe.source, 1, Len(pipe.handled))
    /\ Len(pipe.outcomes) = Len(pipe.handled)
    /\ pipe.transformed = Len(pipe.handled)
    /\ pipe.loaded
         = Cardinality({k \in 1..Len(pipe.outcomes) :
                          pipe.outcomes[k] # "TransformerError"})
    /\ pipe.result.total = Len(pipe.handled)
    /\ pipe.result.failed
         = Cardinality({k \in 1..Len(pipe.outcomes) : PipeFailedAt(k)})
    /\ pipe.result.successful + pipe.result.failed = pipe.result.total
    /\ \A k \in 1..Len(pipe.outcomes) :
         PipeFailedAt(k) => pipe.result.errors[pipe.source[k]] # NoError
    /\ pipe.returned =>
         /\ pipe.handled = pipe.source
         /\ pipe.result.total = Len(pipe.source)

C23_Witness ==
    /\ pipe.returned
    /\ pipe.source = <<5, 4, 5>>
    /\ pipe.outcomes = <<"TransformerError", "false", "success">>
    /\ pipe.result.total = 3 /\ pipe.result.failed = 2

\* C24: if the reader's read() raises, Pipeline.execute() fails with a
\* pipeline error: no record is transformed or loaded and no outcome is
\* recorded; this is the only error that aborts the batch.
C24_OnlyReadErrorAborts ==
    /\ pipe.read_raised =>
         /\ pipe.pc = "exited"
         /\ pipe.raised = "PipelineError"
         /\ ~pipe.returned
         /\ pipe.transformed = 0 /\ pipe.loaded = 0
         /\ pipe.result = PipeFreshResult
    /\ (pipe.pc = "exited" /\ Len(pipe.handled) < Len(pipe.source))
         => (pipe.read_raised \/ pipe.handled = << >>)
    /\ (pipe.pc = "exited" /\ pipe.handled # << >>) => pipe.returned

C24_Witness ==
    /\ pipe.read_raised
    /\ pipe.raised = "PipelineError"
    /\ Len(pipe.source) = MaxRecords
    /\ pipe.exit_code = 1

\* C25: the data-loader command line exits with code 1 if the executed
\* pipeline recorded at least one failed load or if constructing or
\* executing the pipeline raised any error, and with code 0 otherwise.
C25_ExitCodeReflectsFailures ==
    pipe.pc = "exited" =>
      /\ pipe.exit_code \in {0, 1}
      /\ pipe.exit_code = 1
           <=> (pipe.raised # "none" \/ pipe.result.failed > 0)
      /\ pipe.exit_code = 0
           <=> (pipe.returned /\ pipe.result.failed = 0)

C25_Witness ==
    /\ pipe.pc = "exited"
    /\ pipe.returned
    /\ pipe.outcomes = <<"success", "LoaderError">>
    /\ pipe.exit_code = 1

\* The API serves the last load() call: the data carries an id, the token
\* endpoint issues a token whenever asked, and the HEAD request is answered.
LoadServed ==
    /\ loader.calls > 0
    /\ loader.last.has_id
    /\ loader.last.first = "token"
    /\ loader.last.as = "token"
    /\ loader.last.head # "TransportError"

\* C26: Ivanti loader load(): when every create/update attempt fails, exactly
\* retry_attempts write requests are made, each one after the first preceded
\* by a re-authentication, and the last loader error is raised; when an
\* attempt succeeds load() returns true and makes no further attempt.
C26_LoadRetriesThenRaises ==
    (LoadServed /\ loader.retry_attempts = RetryAttempts) =>
      /\ (\A k \in 1..RetryAttempts : loader.last.ws[k] = "error")
           => /\ loader.last.writes = RetryAttempts
              /\ loader.last.raised = "LoaderError"
              /\ loader.last.posts >= RetryAttempts - 1
      /\ \A k \in 1..RetryAttempts :
           (/\ loader.last.ws[k] = "2xx"
            /\ \A j \in 1..(k - 1) : loader.last.ws[j] = "error")
           => /\ loader.last.returned = "true"
              /\ loader.last.writes = k

\* C27: after a successful authentication the Ivanti loader holds the token
\* with an expiry one hour later: subsequent load() calls before that expiry
\* do not call the token endpoint, and the first load() with no token or
\* after the expiry authenticates before any other request.
C27_TokenHeldForOneHour ==
    LoadServed =>
      /\ loader.last.posts > 0
           => /\ loader.auth_token
              /\ loader.auth_expiry = loader.issued_at + HourSeconds
      /\ (/\ loader.last.issued_before # NoExpiry
          /\ loader.last.at < loader.last.issued_before + HourSeconds
          /\ loader.last.ws[1] = "2xx")
           => loader.last.posts = 0
      /\ loader.last.issued_before = NoExpiry => loader.last.posts >= 1

\* The last mapping handled by transform() reached _apply_transform.
TransformApplied ==
    /\ mapper.last # NoMapping
    /\ ~mapper.last.skipped
    /\ ~(mapper.last.missing /\ mapper.last.default = NoneValue)

\* tn(...t2(t1(value))) for the segment names <<t1, ..., tn>>.
RECURSIVE Composed(_, _)
Composed(value, names) ==
    IF names = << >> THEN value
    ELSE FieldTransform(names[Len(names)],
                        Composed(value, SubSeq(names, 1, Len(names) - 1)))

\* C28: for a transform string t1|t2|...|tn the field mapper's mapped value
\* is tn(...t2(t1(value))), strictly left to right; an unknown segment raises
\* a transformer error naming that segment and no output record is produced.
C28_TransformChainLeftToRight ==
    TransformApplied =>
      LET names == [i \in 1..Len(mapper.last.segs) |->
                      StripSegment(mapper.last.segs[i])]
          unknown == {i \in 1..Len(names) : names[i] \notin KnownTransforms}
      IN
      IF unknown = {}
      THEN /\ mapper.raised = "none"
           /\ mapper.last.target \in DOMAIN mapper.result
           /\ mapper.result[mapper.last.target]
                = Composed(mapper.last.applied_to, names)
      ELSE /\ mapper.pc = "raised"
           /\ mapper.raised = "TransformerError"
           /\ mapper.named
                = names[CHOOSE i \in unknown : \A j \in unknown : i <= j]
           /\ mapper.result = [t \in {} |-> NoneValue]
           /\ ~mapper.returned

C28_Witness ==
    /\ mapper.returned
    /\ mapper.last.segs = <<"upper", " lower ">>
    /\ mapper.last.applied_to = PyValue("str", <<" ", "a">>, 0)
    /\ mapper.result["t2"] = PyValue("str", <<" ", "a">>, 0)
    /\ "t1" \in DOMAIN mapper.result

\* C29: when the source field of a mapping is absent from the record, the
\* target is omitted if ignore_missing is set (even if a default_value is
\* configured); otherwise a configured default_value is the value that is
\* transformed; otherwise a transformer error names the missing field.
C29_MissingSourceField ==
    (mapper.last # NoMapping /\ mapper.last.missing) =>
      IF mapper.ignore_missing
      THEN /\ mapper.last.skipped
           /\ mapper.raised = "none"
           /\ mapper.last.target \notin DOMAIN mapper.result
      ELSE IF mapper.last.default # NoneValue
      THEN /\ mapper.last.applied_to = mapper.last.default
           /\ LET a == ApplyTransform(mapper.last.default, mapper.last.segs)
              IN IF a.raised = "none"
                 THEN /\ mapper.raised = "none"
                      /\ mapper.result[mapper.last.target] = a.value
                 ELSE mapper.raised = a.raised /\ mapper.named = a.named
      ELSE /\ mapper.pc = "raised"
           /\ mapper.raised = "TransformerError"
           /\ mapper.named = mapper.last.source
           /\ ~mapper.returned

C29_Witness ==
    /\ mapper.returned
    /\ mapper.ignore_missing
    /\ mapper.last.missing
    /\ mapper.data[mapper.last.source] = Absent
    /\ mapper.last.default # NoneValue
    /\ mapper.last.target \notin DOMAIN mapper.result
    /\ "t1" \in DOMAIN mapper.result

\* The records of the rows that pass validate(), in sheet order, each with
\* the row number of its own place in the sheet.
RECURSIVE PassingRows(_)
PassingRows(n) ==
    IF n = 0 THEN << >>
    ELSE LET data == excel.rows[n]
             passes == \A c \in excel.required_columns :
                          c \in DOMAIN data /\ data[c] # EmptyCell
         IN IF passes
            THEN Append(PassingRows(n - 1),
                        [row_number |-> (n - 1) + excel.header_row
                                          + excel.skip_rows + 2,
                         data |-> data])
            ELSE PassingRows(n - 1)

\* C30: the Excel reader's read() returns, in sheet order, exactly the rows
\* that pass validate(): a row whose required column is absent or empty is
\* omitted without any failure being recorded, and every returned record
\* keeps row_number = row index + header_row + skip_rows + 2 (survivors are
\* not renumbered; the first data row is 4 for header_row 0, skip_rows 2).
C30_ReadReturnsPassingRowsInOrder ==
    /\ excel.pc \in {"rows", "returned"}
         => /\ excel.records = PassingRows(Len(excel.rows))
            /\ excel.raised = "none"
    /\ (excel.pc \in {"rows", "returned"} /\ excel.header_row = 0
        /\ excel.skip_rows = 2 /\ excel.records # << >>
        /\ excel.records[1].data = excel.rows[1])
         => excel.records[1].row_number = 4

C30_Witness ==
    /\ excel.pc = "returned"
    /\ excel.header_row = 0
    /\ excel.skip_rows = 2
    /\ excel.required_columns = {"name"}
    /\ Len(excel.rows) = 3
    /\ excel.rows[2]["name"] = EmptyCell
    /\ Len(excel.records) = 2
    /\ excel.records[1].row_number = 4
    /\ excel.records[2].row_number = 6

\* The settlement calls (acknowledge or reject) the service has issued for
\* delivery t.
SettleCalls(t) == log[t].ack_calls + log[t].reject_calls

\* C31: during a run the service settles deliveries strictly one at a time:
\* for each message yielded by the queue it issues exactly one acknowledge or
\* reject call (never both, never neither) for that delivery tag before the
\* next message is pulled, so settlements happen in delivery order.
C31_SettledOneAtATimeInOrder ==
    \A t \in Tags :
        /\ log[t].yielded =>
             /\ SettleCalls(t) <= 1
             /\ Handled(t) => SettleCalls(t) = 1
        /\ \A u \in Tags :
             (t < u /\ log[t].yielded /\ log[u].pulled) => SettleCalls(t) = 1
        /\ \A u \in Tags :
             (t < u /\ SettleCalls(u) > 0) => log[t].pulled

C31_Witness ==
    /\ svc.pc = "returned"
    /\ log[1].yielded /\ log[1].reject_calls = 1 /\ log[1].ack_calls = 0
    /\ log[2].yielded /\ log[2].ack_calls = 1 /\ log[2].reject_calls = 0

\* C32: every reject issued during a run, by the consumer for unparseable
\* bodies or by the service for failed messages, has requeue = false: no
\* message is ever requeued to the main queue by the ingestor.
C32_RejectNeverRequeues ==
    \A t \in Tags : log[t].reject_calls > 0 => ~log[t].requeue

C32_Witness ==
    /\ svc.pc = "returned"
    /\ log[1].parse_failed /\ log[1].reject_calls = 1 /\ log[1].rejected = 1
    /\ log[2].yielded /\ log[2].reject_calls = 1 /\ log[2].rejected = 1
    /\ ~log[1].requeue /\ ~log[2].requeue

\* A connect() or reconnect() call has ended, and the token endpoint grants a
\* token to the request such a call sends.
ConnectEndedWithGrant ==
    /\ iv.pc = "idle"
    /\ iv.op \in ConnectOps
    /\ iv.call.remote = "ok"

\* C33: Ivanti repository: reconnect(), and connecting again after
\* disconnect() or after leaving a scoped acquisition, leaves the repository
\* connected (is_connected() true) whenever the token exchange succeeds;
\* disconnect() never makes a later connect impossible.
C33_ReconnectLeavesConnected ==
    /\ ConnectEndedWithGrant
         => /\ iv.call.raised = "none"
            /\ IsConnected(iv)
    /\ (iv.pc = "idle" /\ iv.op \in ConnectOps /\ ~iv.client)
         => iv.call.raised = "none"

\* min(base_delay * exponential_base^(n-1), max_delay) in quarter seconds,
\* with the power written out as a product of n - 1 factors.
ExpectedWait(cfg, n) ==
    LET RECURSIVE Scaled(_)
        Scaled(k) == IF k = 0 THEN cfg.base_delay
                     ELSE cfg.exponential_base * Scaled(k - 1)
        d == Scaled(n - 1)
    IN 4 * (IF d < cfg.max_delay THEN d ELSE cfg.max_delay)

\* C34: retry_with_backoff with jitter disabled: the wait before the retry
\* that follows failed attempt n (1 <= n < max_attempts) is
\* min(base_delay * exponential_base^(n-1), max_delay), so successive waits
\* are non-decreasing and never exceed max_delay; for base 1.0, factor 2.0,
\* max 60.0 and 3 attempts the waits are 1.0 s then 2.0 s.
C34_WaitsWithoutJitter ==
    (retry.pc # "idle" /\ ~retry.cfg.jitter) =>
      /\ Len(retry.sleeps) < retry.cfg.max_attempts
      /\ \A n \in 1..Len(retry.sleeps) :
           /\ retry.calls[n] = "retryable"
           /\ retry.sleeps[n] = ExpectedWait(retry.cfg, n)
           /\ retry.sleeps[n] <= 4 * retry.cfg.max_delay
           /\ n > 1 => retry.sleeps[n - 1] <= retry.sleeps[n]
      /\ (/\ retry.cfg.base_delay = 1 /\ retry.cfg.exponential_base = 2
          /\ retry.cfg.max_delay = 60 /\ retry.cfg.max_attempts = 3
          /\ Len(retry.calls) = 3)
           => retry.sleeps = <<4, 8>>

C34_Witness ==
    /\ retry.pc = "returned"
    /\ ~retry.cfg.jitter
    /\ retry.cfg.base_delay = 1 /\ retry.cfg.exponential_base = 2
    /\ retry.cfg.max_delay = 60 /\ retry.cfg.max_attempts = 3
    /\ retry.calls = <<"retryable", "retryable", "ok">>
    /\ retry.sleeps = <<4, 8>>

\* C35: Ivanti loader load() performs the existence check (HEAD) once per
\* call; it issues an update (PUT) if and only if that check returned status
\* 200 and a create (POST) for any other status, and every retry within the
\* same load() repeats the same kind of request without re-checking existence.
C35_ExistenceCheckedOncePerLoad ==
    (LoadServed /\ loader.retry_attempts = RetryAttempts) =>
      /\ loader.last.heads = 1
      /\ loader.last.writes >= 1
      /\ loader.last.kind = "PUT" <=> loader.last.head = "200"
      /\ loader.last.kind = "POST" <=> loader.last.head # "200"

\* C39: Ivanti loader with retry_attempts = 0: load() of a record that has an
\* id authenticates and checks existence, issues no create or update request,
\* and returns false without raising.
C39_ZeroRetryAttemptsReturnsFalse ==
    (LoadServed /\ loader.retry_attempts = 0) =>
      /\ loader.last.needed_auth => loader.last.posts = 1
      /\ loader.last.heads = 1
      /\ loader.last.writes = 0
      /\ loader.last.returned = "false"
      /\ loader.last.raised = "none"

AcknowledgeFailed(t) ==
    Handled(t) /\ log[t].ack_calls = 1 /\ log[t].acked = 0

C38_ResultAccumulatesAcrossExecutions ==
    (pipe.pc = "exited" /\ pipe.returned) =>
      /\ pipe.result.total = (pipe.again + 1) * Len(pipe.source)
      /\ pipe.result.total = pipe.before.total + Len(pipe.source)
      /\ pipe.result.successful >= pipe.before.successful
      /\ pipe.result.failed >= pipe.before.failed
      /\ \A row \in RowNumbers :
           pipe.before.errors[row] # NoError
             => pipe.result.errors[row] # NoError

C38_Witness ==
    /\ pipe.pc = "exited" /\ pipe.returned
    /\ pipe.again = 1
    /\ Len(pipe.source) = 2
    /\ pipe.before.failed = 1 /\ pipe.before.successful = 1
    /\ pipe.before.errors[4] # NoError
    /\ pipe.result.total = 4
    /\ pipe.result.successful = 3
    /\ pipe.result.errors[4] # NoError

\* The entries of the error map of a result.
ErrorEntries(r) == {i \in DOMAIN r.errors : r.errors[i] # NoError}

=============================================================================
